---------------------------- MODULE Spec2Model ----------------------------
(***************************************************************************)
(* Cluster containment (CCP) and soft Robinson-Foulds distance (SRFD) on   *)
(* rooted phylogenetic networks: a model of ClusterContainment.c,          *)
(* SoftRFDist_parallel.c and SoftRFDist_print.c.                           *)
(*                                                                         *)
(* Arrays of the C code that are indexed by a vertex are functions on      *)
(* 0..no_nodes-1; lists (r_nodes, input_leaves, child lists, ...) are      *)
(* sequences whose entries are 0-based vertex indices.  A vertex name of   *)
(* an input file is an integer; the order of integers stands for strcmp.   *)
(***************************************************************************)
EXTENDS Integers, Sequences, FiniteSets, TLC

(* node types and reticulation flags: the #defines of the source *)
ROOT == 0
TREE == 1
RET == 2
LEAVE == 3
INNER == 4
CROSS == 5
REVISED == 6

(* bounds of the model: the generated networks have MinNodes..MaxNodes     *)
(* vertices and at most MaxParents parents per vertex                      *)
MinNodes == 4
MaxNodes == 6
MaxParents == 2

(* the SRFD runs compare networks with at least MinLeaves leaves, and the   *)
(* parallel loop runs on NumThreads processors                              *)
MinLeaves == 3
NumThreads == 2

-----------------------------------------------------------------------------
(* generic helpers on sequences *)

RECURSIVE SeqSum(_)
SeqSum(s) == IF s = <<>> THEN 0 ELSE Head(s) + SeqSum(Tail(s))

Range(s) == { s[i] : i \in 1..Len(s) }

Reverse(s) == [ i \in 1..Len(s) |-> s[Len(s) + 1 - i] ]

(* Is_In: 1 when elt occurs in the list, -1 otherwise *)
Is_In(elt, list) == IF \E i \in 1..Len(list) : list[i] = elt THEN 1 ELSE -1

(* Check_List: 0-based position of the first occurrence of b, -1 if none *)
Check_List(list, b) ==
    IF \E i \in 1..Len(list) : list[i] = b
    THEN (CHOOSE i \in 1..Len(list) : list[i] = b /\ \A j \in 1..(i-1) : list[j] # b) - 1
    ELSE -1

(* append lf unless it is already recorded (the y == 0 scans of Replace_Ret_Revised) *)
AddOnce(list, lf) == IF Is_In(lf, list) = 1 THEN list ELSE Append(list, lf)

-----------------------------------------------------------------------------
(* Reading the edge list: interning of names in first-seen order            *)

RECURSIVE InternNames(_, _)
InternNames(file, names) ==
    IF file = <<>> THEN names
    ELSE LET e == Head(file)
             n1 == AddOnce(names, e[1])
             n2 == AddOnce(n1, e[2])
         IN InternNames(Tail(file), n2)

(* Check_Name: 0-based index of a name *)
Check_Name(names, x) == Check_List(names, x)

ReadEdges(file) ==
    LET names == InternNames(file, <<>>)
    IN [ node_strings |-> names,
         no_nodes |-> Len(names),
         start |-> [ k \in 1..Len(file) |-> Check_Name(names, file[k][1]) ],
         end |-> [ k \in 1..Len(file) |-> Check_Name(names, file[k][2]) ] ]

InDeg(i, end) == Cardinality({ k \in 1..Len(end) : end[k] = i })
OutDeg(i, start) == Cardinality({ k \in 1..Len(start) : start[k] = i })

(* Node_Type_Inform1: node_type keeps its previous value where no case matches; *)
(* root is the last vertex with indegree 0 and outdegree > 1                    *)
TypeOf(in, out, old) ==
    IF in > 1 /\ out = 1 THEN RET
    ELSE IF in = 1 /\ out >= 1 THEN TREE
    ELSE IF in = 1 /\ out = 0 THEN LEAVE
    ELSE IF in = 0 /\ out > 1 THEN ROOT
    ELSE old

Node_Type_Inform1(old_type, old_root, no_nodes, start, end) ==
    LET V == 0..(no_nodes - 1)
        roots == { i \in V : InDeg(i, end) = 0 /\ OutDeg(i, start) > 1 }
        check == Cardinality(roots)
        check_node == Cardinality({ i \in V : InDeg(i, end) > 1 /\ OutDeg(i, start) > 1 })
        maxroot == CHOOSE r \in roots : \A s \in roots : s <= r
    IN [ x |-> IF check > 1 \/ check_node > 0 THEN -2 ELSE 0,
         node_type |-> [ i \in V |-> TypeOf(InDeg(i, end), OutDeg(i, start), old_type[i]) ],
         root |-> IF roots = {} THEN old_root ELSE maxroot ]

(* one exchange of the indices i and j in a name list and in an endpoint array *)
SwapIdx(a, i, j) == [ k \in DOMAIN a |-> IF a[k] = i THEN j ELSE IF a[k] = j THEN i ELSE a[k] ]
SwapName(names, i, j) ==
    [ k \in 1..Len(names) |-> IF k = i + 1 THEN names[j + 1]
                              ELSE IF k = j + 1 THEN names[i + 1] ELSE names[k] ]

(* Move_Leaves_Front: the i-th leaf name is exchanged with the name at index i *)
RECURSIVE Move_Leaves_Front(_, _, _, _, _)
Move_Leaves_Front(names, start, end, leave_names, i) ==
    IF i >= Len(leave_names) THEN [ node_strings |-> names, start |-> start, end |-> end ]
    ELSE LET j == Check_Name(names, leave_names[i + 1])
         IN Move_Leaves_Front(SwapName(names, i, j), SwapIdx(start, i, j),
                              SwapIdx(end, i, j), leave_names, i + 1)

(* Sort_Leaves (SRFD only): exchange sort of the first n_l names *)
RECURSIVE Sort_Leaves(_, _, _, _, _, _)
Sort_Leaves(names, start, end, n_l, i, j) ==
    IF i >= n_l THEN [ node_strings |-> names, start |-> start, end |-> end ]
    ELSE IF j >= n_l THEN Sort_Leaves(names, start, end, n_l, i + 1, i + 2)
    ELSE IF names[i + 1] > names[j + 1]
         THEN Sort_Leaves(SwapName(names, i, j), SwapIdx(start, i, j), SwapIdx(end, i, j),
                          n_l, i, j + 1)
         ELSE Sort_Leaves(names, start, end, n_l, i, j + 1)

(* Child_Parent_Inform: children and parents of every vertex in edge order *)
RECURSIVE EdgeList(_, _, _, _)
EdgeList(from, to, x, k) ==
    IF k > Len(from) THEN <<>>
    ELSE IF from[k] = x THEN <<to[k]>> \o EdgeList(from, to, x, k + 1)
    ELSE EdgeList(from, to, x, k + 1)

Child_Parent_Inform(no_nodes, start, end) ==
    [ child_array |-> [ x \in 0..(no_nodes - 1) |-> EdgeList(start, end, x, 1) ],
      parent_array |-> [ y \in 0..(no_nodes - 1) |-> EdgeList(end, start, y, 1) ] ]

-----------------------------------------------------------------------------
(* Multi-labelled trees (struct arb_tnode): label, flag and the child list. *)
(* NullTree stands for the NULL pointer of an emptied component.            *)

Node(l, f, ch) == [ label |-> l, flag |-> f, child |-> ch ]
NullTree == Node(-1, 0, <<>>)

RECURSIVE Build_Comp_Revised(_, _, _)
Build_Comp_Revised(x, child_array, node_type) ==
    IF node_type[x] = TREE \/ node_type[x] = ROOT
    THEN Node(x, 0, [ i \in 1..Len(child_array[x]) |->
                        Build_Comp_Revised(child_array[x][i], child_array, node_type) ])
    ELSE Node(x, 0, <<>>)

(* the *size and *no_tree_node counters of Build_Comp_Revised: one per child built *)
RECURSIVE BuiltSize(_)
BuiltSize(t) == SeqSum([ i \in 1..Len(t.child) |-> 1 + BuiltSize(t.child[i]) ])

RECURSIVE BuiltTreeNodes(_, _)
BuiltTreeNodes(t, node_type) ==
    SeqSum([ i \in 1..Len(t.child) |->
               (IF node_type[t.child[i].label] # RET THEN 1 ELSE 0)
               + BuiltTreeNodes(t.child[i], node_type) ])

(* Search_Revised(tree, node) != NULL *)
RECURSIVE Contains(_, _)
Contains(t, node) ==
    IF t = NullTree THEN FALSE
    ELSE t.label = node \/ \E i \in 1..Len(t.child) : Contains(t.child[i], node)

(* Search_Revised: the first vertex with the label in pre-order *)
RECURSIVE Search_Revised(_, _)
Search_Revised(t, node) ==
    IF t = NullTree THEN NullTree
    ELSE IF t.label = node THEN t
    ELSE IF \E i \in 1..Len(t.child) : Contains(t.child[i], node)
         THEN LET i == CHOOSE k \in 1..Len(t.child) :
                         /\ Contains(t.child[k], node)
                         /\ \A m \in 1..(k-1) : ~Contains(t.child[m], node)
              IN Search_Revised(t.child[i], node)
         ELSE NullTree

(* Is_In_Comp: 1 when a childless vertex of the tree carries the label *)
RECURSIVE Is_In_Comp(_, _)
Is_In_Comp(t, node) ==
    IF t = NullTree THEN 0
    ELSE IF Len(t.child) = 0 THEN (IF t.label = node THEN 1 ELSE 0)
    ELSE IF SeqSum([ i \in 1..Len(t.child) |-> Is_In_Comp(t.child[i], node) ]) > 0
         THEN 1 ELSE 0

(* Is_Below: leaf y is below vertex p of a component *)
RECURSIVE Is_Below(_, _, _)
Is_Below(p, y, node_type) ==
    IF node_type[p.label] = LEAVE THEN (IF p.label = y THEN 1 ELSE 0)
    ELSE IF \E i \in 1..Len(p.child) : Is_Below(p.child[i], y, node_type) = 1 THEN 1 ELSE 0

(* Initiallize: clear all flags *)
RECURSIVE Initiallize(_)
Initiallize(t) ==
    IF t = NullTree THEN t
    ELSE Node(t.label, 0, [ i \in 1..Len(t.child) |-> Initiallize(t.child[i]) ])

(* Mark_Revised: flag the path(s) from the root towards the occurrences of leaf *)
RECURSIVE Mark_Revised(_, _)
Mark_Revised(t, leaf) ==
    IF t = NullTree THEN t
    ELSE IF Len(t.child) = 0 /\ t.label = leaf THEN Node(t.label, 1, t.child)
    ELSE LET hit == { i \in 1..Len(t.child) : Contains(t.child[i], leaf) }
         IN IF Cardinality(hit) = 1
            THEN Node(t.label, 1, [ i \in 1..Len(t.child) |->
                        IF i \in hit THEN Mark_Revised(t.child[i], leaf) ELSE t.child[i] ])
            ELSE IF Cardinality(hit) > 1 THEN Node(t.label, 1, t.child)
            ELSE t

(* the increments of *no_mark made by one call of Mark_Revised *)
RECURSIVE MarkCount(_, _)
MarkCount(t, leaf) ==
    IF t = NullTree THEN 0
    ELSE IF Len(t.child) = 0 /\ t.label = leaf THEN 1
    ELSE LET hit == { i \in 1..Len(t.child) : Contains(t.child[i], leaf) }
         IN IF Cardinality(hit) = 1
            THEN 1 + MarkCount(t.child[CHOOSE i \in hit : TRUE], leaf)
            ELSE IF Cardinality(hit) > 1 THEN 1
            ELSE 0

(* Find_Vmax: labels of the unflagged children of flagged vertices, without repeats *)
RECURSIVE Find_Vmax(_, _)
RECURSIVE Find_Vmax_Children(_, _, _)
Find_Vmax(t, vmax) ==
    IF t = NullTree THEN vmax
    ELSE IF t.flag = 1 THEN Find_Vmax_Children(t, 1, vmax)
    ELSE vmax
Find_Vmax_Children(t, i, vmax) ==
    IF i > Len(t.child) THEN vmax
    ELSE IF t.child[i].flag = 0
         THEN Find_Vmax_Children(t, i + 1, AddOnce(vmax, t.child[i].label))
         ELSE Find_Vmax_Children(t, i + 1, Find_Vmax(t.child[i], vmax))

-----------------------------------------------------------------------------
(* Classification and ordering of the reticulations                         *)

(* the reticulation or root reached from g through tree vertices *)
RECURSIVE ClimbTree(_, _, _)
ClimbTree(g, parent_array, node_type) ==
    IF node_type[g] = TREE THEN ClimbTree(parent_array[g][1], parent_array, node_type) ELSE g

(* Is_Inner_Revised: INNER when all parents lie in one tree component *)
Is_Inner_Revised(node, parent_array, node_type) ==
    LET f == ClimbTree(parent_array[node][1], parent_array, node_type)
    IN IF \E k \in 2..Len(parent_array[node]) :
              ClimbTree(parent_array[node][k], parent_array, node_type) # f
       THEN CROSS ELSE INNER

(* Is_Tree_Component: 1 when a reticulation occurs in the component below rnode *)
RECURSIVE Is_Tree_Component(_, _, _)
Is_Tree_Component(rnode, node_type, child_array) ==
    IF \E i \in 1..Len(child_array[rnode]) :
          LET c == child_array[rnode][i]
          IN \/ node_type[c] = RET
             \/ node_type[c] # LEAVE /\ Is_Tree_Component(c, node_type, child_array) = 1
    THEN 1 ELSE 0

(* Count_Ret_Child: count = reticulation children, flag = those already placed, *)
(* size = leaves and tree vertices of the component                            *)
RECURSIVE Count_Ret_Child(_, _, _, _)
Count_Ret_Child(rnode, orig_rnodes, node_type, child_array) ==
    LET part(c) ==
          IF node_type[c] = LEAVE THEN [ count |-> 0, flag |-> 0, size |-> 1 ]
          ELSE IF node_type[c] = RET
               THEN [ count |-> 1, flag |-> IF Is_In(c, orig_rnodes) = -1 THEN 1 ELSE 0,
                      size |-> 0 ]
               ELSE LET r == Count_Ret_Child(c, orig_rnodes, node_type, child_array)
                    IN [ count |-> r.count, flag |-> r.flag, size |-> r.size + 1 ]
        parts == [ i \in 1..Len(child_array[rnode]) |-> part(child_array[rnode][i]) ]
    IN [ count |-> SeqSum([ i \in 1..Len(parts) |-> parts[i].count ]),
         flag |-> SeqSum([ i \in 1..Len(parts) |-> parts[i].flag ]),
         size |-> SeqSum([ i \in 1..Len(parts) |-> parts[i].size ]) ]

(* tnode_comparator: larger value first, 0 on equal values *)
tnode_comparator(p1, p2) ==
    IF p1.value > p2.value THEN -1 ELSE IF p1.value < p2.value THEN 1 ELSE 0

(* qsort with tnode_comparator.  The order of elements that compare equal is *)
(* unspecified; tie selects one of two outcomes: "asc" keeps them in array    *)
(* order, "desc" reverses them.                                              *)
RECURSIVE QSort(_, _)
QSort(level, tie) ==
    IF level = <<>> THEN <<>>
    ELSE LET first(i) == \A j \in 1..Len(level) : j # i =>
                 LET c == tnode_comparator(level[i], level[j])
                 IN \/ c < 0
                    \/ c = 0 /\ (IF tie = "asc" THEN level[i].index < level[j].index
                                                ELSE level[i].index > level[j].index)
             i == CHOOSE k \in 1..Len(level) : first(k)
         IN <<level[i]>> \o QSort(SelectSeq(level, LAMBDA e : e # level[i]), tie)

(* Is_Empty: 1 when every entry of r_nodes is -2 *)
Is_Empty(r_nodes) == IF \A i \in 1..Len(r_nodes) : r_nodes[i] = -2 THEN 1 ELSE 0

(* one pass of the third loop of Sort_Rets_By_Level: the positions of the    *)
(* reticulations whose reticulation children have all been placed           *)
Level_Pass(orig_rnodes, node_type, child_array) ==
    { i \in 1..Len(orig_rnodes) :
        /\ orig_rnodes[i] # -2
        /\ Count_Ret_Child(orig_rnodes[i], orig_rnodes, node_type, child_array).flag > 0
        /\ Count_Ret_Child(orig_rnodes[i], orig_rnodes, node_type, child_array).flag
             = Count_Ret_Child(orig_rnodes[i], orig_rnodes, node_type, child_array).count }

(* the third loop of Sort_Rets_By_Level never ends: the loop goes on while  *)
(* Is_Empty is 0, and a pass that places no reticulation leaves orig_rnodes *)
(* as it was, so that every later pass is the same pass                     *)
RECURSIVE Level_Loop_Forever(_, _, _)
Level_Loop_Forever(orig_rnodes, node_type, child_array) ==
    IF Is_Empty(orig_rnodes) = 1 THEN FALSE
    ELSE IF Level_Pass(orig_rnodes, node_type, child_array) = {} THEN TRUE
    ELSE Level_Loop_Forever([ i \in 1..Len(orig_rnodes) |->
                                IF i \in Level_Pass(orig_rnodes, node_type, child_array)
                                THEN -2 ELSE orig_rnodes[i] ],
                            node_type, child_array)

(* the third loop of Sort_Rets_By_Level: one level of reticulations per round *)
RECURSIVE Sort_Levels(_, _, _, _, _)
Sort_Levels(orig_rnodes, r_nodes, node_type, child_array, tie) ==
    IF Is_Empty(orig_rnodes) = 1 THEN r_nodes
    ELSE LET cand == Level_Pass(orig_rnodes, node_type, child_array)
             mk(i) == [ index |-> i - 1, pnode |-> orig_rnodes[i],
                        value |-> Count_Ret_Child(orig_rnodes[i], orig_rnodes,
                                                  node_type, child_array).size ]
             idx == SelectSeq([ i \in 1..Len(orig_rnodes) |-> i ], LAMBDA i : i \in cand)
             level_ret == QSort([ k \in 1..Len(idx) |-> mk(idx[k]) ], tie)
         IN Sort_Levels([ i \in 1..Len(orig_rnodes) |->
                            IF i \in cand THEN -2 ELSE orig_rnodes[i] ],
                        r_nodes \o [ k \in 1..Len(level_ret) |-> level_ret[k].pnode ],
                        node_type, child_array, tie)

(* a Sort_Rets_By_Level that leaves the reticulations in the order of their *)
(* indices; C20 fails under it                                              *)
Sort_Rets_By_Index(rnodes, child_array, node_type, tie) == rnodes

(* Sort_Rets_By_Level: reticulations above leaves only, then those whose      *)
(* component has no reticulation, then level by level, larger components first *)
Sort_Rets_By_Level(rnodes, child_array, node_type, tie) ==
    LET onlyLeaves(r) == \A i \in 1..Len(child_array[r]) : node_type[child_array[r][i]] = LEAVE
        first == SelectSeq(rnodes, onlyLeaves)
        orig1 == [ i \in 1..Len(rnodes) |-> IF onlyLeaves(rnodes[i]) THEN -2 ELSE rnodes[i] ]
        plain(r) == r # -2 /\ Is_Tree_Component(r, node_type, child_array) = 0
        second == SelectSeq(orig1, plain)
        orig2 == [ i \in 1..Len(orig1) |-> IF plain(orig1[i]) THEN -2 ELSE orig1[i] ]
    IN Sort_Levels(orig2, first \o second, node_type, child_array, tie)

(* orig_rnodes at the third loop of Sort_Rets_By_Level: the reticulations   *)
(* that the first two loops have not placed                                  *)
Rets_Above_Rets(rnodes, child_array, node_type) ==
    [ i \in 1..Len(rnodes) |->
        IF \/ \A k \in 1..Len(child_array[rnodes[i]]) :
                 node_type[child_array[rnodes[i]][k]] = LEAVE
           \/ Is_Tree_Component(rnodes[i], node_type, child_array) = 0
        THEN -2 ELSE rnodes[i] ]

(* Sort_Rets_By_Level does not return *)
Sort_Rets_Forever(rnodes, child_array, node_type) ==
    Level_Loop_Forever(Rets_Above_Rets(rnodes, child_array, node_type), node_type, child_array)

(* Is_Below_revised: 1 when a parent of ret_x climbs through tree vertices to y *)
Is_Below_revised(ret_x, y, parent_array, node_type) ==
    IF \E k \in 1..Len(parent_array[ret_x]) :
          ClimbTree(parent_array[ret_x][k], parent_array, node_type) = y
    THEN 1 ELSE -1

(* exchange of the entries at the 0-based positions i and j of an array *)
SwapEntries(a, i, j) ==
    [ k \in 1..Len(a) |-> IF k = i + 1 THEN a[j + 1] ELSE IF k = j + 1 THEN a[i + 1] ELSE a[k] ]

(* Sort_Rets_Revised, first loop: the reticulations whose children are all *)
(* leaves are exchanged to the front; the result is the array and j        *)
RECURSIVE Leaf_Rets_First(_, _, _, _, _)
Leaf_Rets_First(r_nodes, i, j, child_array, node_type) ==
    IF i >= Len(r_nodes) THEN [ r_nodes |-> r_nodes, j |-> j ]
    ELSE IF \A c \in 1..Len(child_array[r_nodes[i + 1]]) :
               node_type[child_array[r_nodes[i + 1]][c]] = LEAVE
         THEN Leaf_Rets_First(SwapEntries(r_nodes, j, i), i + 1, j + 1, child_array, node_type)
         ELSE Leaf_Rets_First(r_nodes, i + 1, j, child_array, node_type)

(* Sort_Rets_Revised, second loop: position u1 receives the first reticulation *)
(* from u1 on that has none of those from u1 on right below it                *)
RECURSIVE Lowest_Rets_First(_, _, _, _)
Lowest_Rets_First(r_nodes, u1, parent_array, node_type) ==
    IF u1 >= Len(r_nodes) THEN r_nodes
    ELSE LET free == { i \in u1..(Len(r_nodes) - 1) :
                         \A j \in u1..(Len(r_nodes) - 1) :
                            Is_Below_revised(r_nodes[j + 1], r_nodes[i + 1],
                                             parent_array, node_type) # 1 }
             node1 == CHOOSE i \in free : \A k \in free : i <= k
         IN Lowest_Rets_First(SwapEntries(r_nodes, u1, node1), u1 + 1, parent_array, node_type)

Sort_Rets_Sorted(first, parent_array, node_type) ==
    Lowest_Rets_First(first.r_nodes, first.j, parent_array, node_type)

(* Sort_Rets_Revised of SoftRFDist_print.c *)
Sort_Rets_Revised(r_nodes, child_array, parent_array, node_type) ==
    Sort_Rets_Sorted(Leaf_Rets_First(r_nodes, 0, 0, child_array, node_type),
                     parent_array, node_type)

-----------------------------------------------------------------------------
(* Operations of Cluster_Containment on one tree component                  *)

(* an Is_Stable that takes every component for unstable; the reference     *)
(* scenarios C5 fail under it                                               *)
Is_Stable_Never(t, node_type, inner_flag, lf_below) == 0

(* Is_Stable: the component has a leaf or an inner reticulation with a leaf below *)
RECURSIVE Is_Stable(_, _, _, _)
Is_Stable(t, node_type, inner_flag, lf_below) ==
    IF t = NullTree THEN -1
    ELSE IF node_type[t.label] = LEAVE THEN 1
    ELSE IF node_type[t.label] = RET
         THEN (IF inner_flag[t.label] = INNER /\ lf_below[t.label] >= 0 THEN 1 ELSE 0)
    ELSE IF \E i \in 1..Len(t.child) :
                Is_Stable(t.child[i], node_type, inner_flag, lf_below) = 1
         THEN 1 ELSE 0

(* Replace_Ret_Revised on a childless vertex; st carries inner_flag, the three *)
(* leaf lists and rpl_comp; guard is the test leaf_below[x] == -2 (absent in   *)
(* SoftRFDist_print.c)                                                        *)
ReplaceLeafNode(t, st, node_type, lf_below, super_deg, guard) ==
    LET x == t.label
        lf == lf_below[x]
        rpl == IF lf \in DOMAIN st.rpl_comp THEN [ st.rpl_comp EXCEPT ![lf] = x ]
               ELSE st.rpl_comp
    IN IF node_type[x] = LEAVE
       THEN [ tree |-> t, st |-> [ st EXCEPT !.sleaves = AddOnce(@, x) ] ]
       ELSE IF node_type[x] # RET \/ (guard /\ lf = -2) THEN [ tree |-> t, st |-> st ]
       ELSE IF st.inner_flag[x] = INNER
            THEN [ tree |-> Node(lf, t.flag, t.child),
                   st |-> [ st EXCEPT !.rpl_comp = rpl,
                                      !.sleaves = IF lf >= 0 THEN AddOnce(@, lf) ELSE @,
                                      !.ambig = AddOnce(@, lf) ] ]
       ELSE IF st.inner_flag[x] = CROSS
            THEN [ tree |-> Node(lf, t.flag, t.child),
                   st |-> [ st EXCEPT !.inner_flag = [ @ EXCEPT ![x] = REVISED ],
                                      !.rpl_comp = rpl,
                                      !.optional = AddOnce(@, lf) ] ]
       ELSE IF st.inner_flag[x] = REVISED
            THEN [ tree |-> Node(lf, t.flag, t.child),
                   st |-> IF super_deg[x] > 2
                          THEN [ st EXCEPT !.rpl_comp = rpl, !.optional = AddOnce(@, lf) ]
                          ELSE [ st EXCEPT !.rpl_comp = rpl, !.ambig = AddOnce(@, lf) ] ]
       ELSE [ tree |-> t, st |-> st ]

(* Replace_Ret_Revised: left-to-right traversal replacing every reticulation of *)
(* the component by the leaf below it and classifying the leaves                *)
RECURSIVE Replace_Ret_Revised(_, _, _, _, _, _)
RECURSIVE Replace_Children(_, _, _, _, _, _, _)
Replace_Ret_Revised(t, st, node_type, lf_below, super_deg, guard) ==
    IF t = NullTree THEN [ tree |-> t, st |-> st ]
    ELSE IF Len(t.child) = 0 THEN ReplaceLeafNode(t, st, node_type, lf_below, super_deg, guard)
    ELSE LET r == Replace_Children(t.child, 1, st, node_type, lf_below, super_deg, guard)
         IN [ tree |-> Node(t.label, t.flag, r.child), st |-> r.st ]
Replace_Children(ch, i, st, node_type, lf_below, super_deg, guard) ==
    IF i > Len(ch) THEN [ child |-> ch, st |-> st ]
    ELSE LET r == Replace_Ret_Revised(ch[i], st, node_type, lf_below, super_deg, guard)
         IN Replace_Children([ ch EXCEPT ![i] = r.tree ], i + 1, r.st,
                             node_type, lf_below, super_deg, guard)

(* Rebuilt_Component: put the reticulations back in place of their leaves *)
RECURSIVE Rebuilt_Component(_, _, _)
Rebuilt_Component(t, rpl_comp, node_type) ==
    IF t = NullTree THEN t
    ELSE IF Len(t.child) = 0
         THEN (IF t.label >= 0 /\ node_type[t.label] = LEAVE /\ rpl_comp[t.label] # -1
               THEN Node(rpl_comp[t.label], t.flag, t.child) ELSE t)
    ELSE Node(t.label, t.flag,
              [ i \in 1..Len(t.child) |-> Rebuilt_Component(t.child[i], rpl_comp, node_type) ])

(* the loops of Cluster_Containment that call Mark_Revised for a list of leaves *)
RECURSIVE MarkLeaves(_, _, _)
MarkLeaves(tm, leaves, i) ==
    IF i > Len(leaves) THEN tm
    ELSE MarkLeaves([ tree |-> Mark_Revised(tm.tree, leaves[i]),
                      no_mark |-> tm.no_mark + MarkCount(tm.tree, leaves[i]) ], leaves, i + 1)

(* a DProgram_Revised that finds no vertex; the tree case C4 fails under it *)
DProgram_Finds_None(super_t, vmax, j, input_leaves, node_type) == -1

(* a DProgram_Revised that also refuses a row with a leaf outside the input *)
RECURSIVE DProgram_Exact(_, _, _, _, _)
DProgram_Exact(super_t, vmax, j, input_leaves, node_type) ==
    IF j > Len(vmax) THEN -1
    ELSE LET p == Search_Revised(super_t, vmax[j])
         IN IF /\ \A i \in 1..Len(input_leaves) : Is_Below(p, input_leaves[i], node_type) = 1
               /\ \A x \in DOMAIN node_type :
                     (node_type[x] = LEAVE /\ Is_Below(p, x, node_type) = 1)
                        => x \in Range(input_leaves)
            THEN vmax[j]
            ELSE DProgram_Exact(super_t, vmax, j + 1, input_leaves, node_type)

(* DProgram_Revised: the first vertex of vmax that has every input leaf below it *)
RECURSIVE DProgram_Revised(_, _, _, _, _)
DProgram_Revised(super_t, vmax, j, input_leaves, node_type) ==
    IF j > Len(vmax) THEN -1
    ELSE LET p == Search_Revised(super_t, vmax[j])
             k == Cardinality({ i \in 1..Len(input_leaves) :
                                  Is_Below(p, input_leaves[i], node_type) = 1 })
         IN IF k = Len(input_leaves) THEN vmax[j]
            ELSE DProgram_Revised(super_t, vmax, j + 1, input_leaves, node_type)

(* Find_UnStable: the cross reticulations of the component that have a leaf  *)
(* below, split by membership of that leaf in B, in traversal order          *)
RECURSIVE Find_UnStable(_, _, _, _, _)
Find_UnStable(t, input_leaves, node_type, inner_flag, lf_below) ==
    LET none == [ rets_in |-> <<>>, rets_out |-> <<>> ]
    IN IF t = NullTree \/ node_type[t.label] = LEAVE THEN none
       ELSE IF node_type[t.label] = RET
            THEN (IF inner_flag[t.label] = CROSS /\ lf_below[t.label] # -2
                  THEN (IF Is_In(lf_below[t.label], input_leaves) = 1
                        THEN [ rets_in |-> <<t.label>>, rets_out |-> <<>> ]
                        ELSE [ rets_in |-> <<>>, rets_out |-> <<t.label>> ])
                  ELSE none)
       ELSE LET parts == [ i \in 1..Len(t.child) |->
                             Find_UnStable(t.child[i], input_leaves, node_type,
                                           inner_flag, lf_below) ]
                cat[i \in 0..Len(parts)] ==
                    IF i = 0 THEN none
                    ELSE [ rets_in |-> cat[i-1].rets_in \o parts[i].rets_in,
                           rets_out |-> cat[i-1].rets_out \o parts[i].rets_out ]
            IN cat[Len(parts)]

-----------------------------------------------------------------------------
(* Edge removal.  A network copy is a record [cps, net_edges]: the list of    *)
(* components (ret_node, inner, size, no_tree_node, tree_com) and the set of  *)
(* pairs whose entry in the adjacency matrix is 1.                            *)

(* Modify1: drop every child labelled unstb_ret from the tree vertices of a component *)
RECURSIVE Modify1(_, _, _)
Modify1(t, node_type, unstb_ret) ==
    IF t = NullTree THEN t
    ELSE IF node_type[t.label] = TREE \/ node_type[t.label] = ROOT
         THEN LET kept == SelectSeq(t.child, LAMBDA c : c.label # unstb_ret)
              IN Node(t.label, t.flag,
                      [ i \in 1..Len(kept) |-> Modify1(kept[i], node_type, unstb_ret) ])
         ELSE t

(* the parents whose edge to unstb_ret Modify1 clears in net_edges *)
RECURSIVE Modify1Parents(_, _, _)
Modify1Parents(t, node_type, unstb_ret) ==
    IF t = NullTree THEN {}
    ELSE IF node_type[t.label] = TREE \/ node_type[t.label] = ROOT
         THEN (IF \E i \in 1..Len(t.child) : t.child[i].label = unstb_ret
               THEN {t.label} ELSE {})
              \cup UNION { Modify1Parents(t.child[i], node_type, unstb_ret) :
                             i \in { k \in 1..Len(t.child) : t.child[k].label # unstb_ret } }
         ELSE {}

(* the decrements of *comp_size made by Modify1 *)
RECURSIVE Modify1Count(_, _, _)
Modify1Count(t, node_type, unstb_ret) ==
    IF t = NullTree THEN 0
    ELSE IF node_type[t.label] = TREE \/ node_type[t.label] = ROOT
         THEN SeqSum([ i \in 1..Len(t.child) |->
                         IF t.child[i].label = unstb_ret THEN 1
                         ELSE Modify1Count(t.child[i], node_type, unstb_ret) ])
         ELSE 0

(* Modify1 applied to one component record *)
Modify1Comp(c, node_type, x) ==
    [ c EXCEPT !.tree_com = Modify1(@, node_type, x),
               !.size = @ - Modify1Count(c.tree_com, node_type, x) ]

CutEdges(net_edges, parents, x) == net_edges \ { <<q, x>> : q \in parents }

(* Modify2: Modify1 on the component at position from and on all later ones *)
Modify2(nw, from, node_type, x) ==
    LET hit == { i \in from..Len(nw.cps) : nw.cps[i].tree_com # NullTree }
    IN [ cps |-> [ i \in 1..Len(nw.cps) |->
                     IF i \in hit THEN Modify1Comp(nw.cps[i], node_type, x) ELSE nw.cps[i] ],
         net_edges |-> CutEdges(nw.net_edges,
                          UNION { Modify1Parents(nw.cps[i].tree_com, node_type, x) : i \in hit },
                          x) ]

(* the part of Modify that works on one component: a component that consists *)
(* of unstb_ret alone becomes empty, otherwise Modify1                        *)
ModifyComp(c, node_type, unstb_ret) ==
    IF c.tree_com = NullTree THEN c
    ELSE IF c.tree_com.label = unstb_ret
         THEN [ c EXCEPT !.tree_com = NullTree, !.size = @ - 1 ]
         ELSE Modify1Comp(c, node_type, unstb_ret)

ModifyCompParents(c, node_type, unstb_ret) ==
    IF c.tree_com = NullTree THEN {}
    ELSE IF c.tree_com.label = unstb_ret THEN {c.ret_node}
    ELSE Modify1Parents(c.tree_com, node_type, unstb_ret)

(* Modify, first loop: remove unstb_ret from all components after position pos *)
ModifyOthers(nw, pos, node_type, unstb_ret) ==
    [ cps |-> [ i \in 1..Len(nw.cps) |->
                  IF i > pos THEN ModifyComp(nw.cps[i], node_type, unstb_ret) ELSE nw.cps[i] ],
      net_edges |-> CutEdges(nw.net_edges,
                       UNION { ModifyCompParents(nw.cps[i], node_type, unstb_ret) :
                                 i \in (pos + 1)..Len(nw.cps) },
                       unstb_ret) ]

(* Modify, second part: remove unstb_ret from the component at position pos *)
ModifyOwn(nw, pos, node_type, unstb_ret) ==
    [ cps |-> [ nw.cps EXCEPT ![pos] = ModifyComp(@, node_type, unstb_ret) ],
      net_edges |-> CutEdges(nw.net_edges,
                             ModifyCompParents(nw.cps[pos], node_type, unstb_ret), unstb_ret) ]

(* a Modify_Cross_Ret1 that follows the rule of Modify_Cross_Ret: the edges *)
(* from the later components are cut when the leaf is in the cluster        *)
RECURSIVE Modify_Cross_Ret_In_Rule(_, _, _, _, _, _, _, _, _)
Modify_Cross_Ret_In_Rule(nw, lf_below, r_nodes, i, optional, in_cluster, pos, node_type, keep) ==
    IF i > Len(r_nodes) THEN [ nw |-> nw, lf_below |-> lf_below ]
    ELSE LET r == r_nodes[i]
             x == lf_below[r]
         IN IF x >= 0 /\ Is_In(x, optional) = 1
            THEN IF in_cluster[x] = 1
                 THEN Modify_Cross_Ret_In_Rule(Modify2(nw, pos + 1, node_type, r),
                                       [ lf_below EXCEPT ![r] = -2 ], r_nodes, i + 1,
                                       optional, in_cluster, pos, node_type, keep)
                 ELSE Modify_Cross_Ret_In_Rule([ cps |-> [ nw.cps EXCEPT ![pos] =
                                                     Modify1Comp(@, node_type, r) ],
                                         net_edges |-> CutEdges(nw.net_edges,
                                              Modify1Parents(nw.cps[pos].tree_com, node_type, r),
                                              r) ],
                                       lf_below, r_nodes, i + 1,
                                       optional, in_cluster, pos, node_type, keep)
            ELSE Modify_Cross_Ret_In_Rule(nw, lf_below, r_nodes, i + 1,
                                  optional, in_cluster, pos, node_type, keep)

(* Modify_Cross_Ret (keep = 1) and Modify_Cross_Ret1 (keep = 0): for every     *)
(* reticulation whose leaf is optional, cut its edges from the later components *)
(* when in_cluster of the leaf equals keep, from the current one otherwise     *)
RECURSIVE Modify_Cross_Ret(_, _, _, _, _, _, _, _, _)
Modify_Cross_Ret(nw, lf_below, r_nodes, i, optional, in_cluster, pos, node_type, keep) ==
    IF i > Len(r_nodes) THEN [ nw |-> nw, lf_below |-> lf_below ]
    ELSE LET r == r_nodes[i]
             x == lf_below[r]
         IN IF x >= 0 /\ Is_In(x, optional) = 1
            THEN IF in_cluster[x] = keep
                 THEN Modify_Cross_Ret(Modify2(nw, pos + 1, node_type, r),
                                       [ lf_below EXCEPT ![r] = -2 ], r_nodes, i + 1,
                                       optional, in_cluster, pos, node_type, keep)
                 ELSE Modify_Cross_Ret([ cps |-> [ nw.cps EXCEPT ![pos] =
                                                     Modify1Comp(@, node_type, r) ],
                                         net_edges |-> CutEdges(nw.net_edges,
                                              Modify1Parents(nw.cps[pos].tree_com, node_type, r),
                                              r) ],
                                       lf_below, r_nodes, i + 1,
                                       optional, in_cluster, pos, node_type, keep)
            ELSE Modify_Cross_Ret(nw, lf_below, r_nodes, i + 1,
                                  optional, in_cluster, pos, node_type, keep)

-----------------------------------------------------------------------------
(* Feasibility test of a split network.  net is the static network record     *)
(* (node_type, child_array, parent_array, ...); prog selects the source file: *)
(* "ccp" ClusterContainment.c, "parallel" SoftRFDist_parallel.c, "print"      *)
(* SoftRFDist_print.c.                                                        *)

(* Count_Parent: parents whose edge to child is still present *)
Count_Parent(child, parent_array, net_edges) ==
    Cardinality({ k \in 1..Len(parent_array[child]) :
                    <<parent_array[child][k], child>> \in net_edges })

(* Is_Feasible_Node: 0 when a sibling subtree of the leaf certainly holds a leaf *)
(* on the wrong side of B.  In SoftRFDist_parallel.c the first tree child whose  *)
(* edge is present decides the result.                                          *)
RECURSIVE Is_Feasible_Node(_, _, _, _, _, _, _, _)
Is_Feasible_Node(parent, i, curr_leaf, indicator, input_leaves, lf_below, net_edges, net) ==
    IF i > Len(net.child_array[parent]) THEN 1
    ELSE LET a_leaf == net.child_array[parent][i]
             next == Is_Feasible_Node(parent, i + 1, curr_leaf, indicator, input_leaves,
                                      lf_below, net_edges, net)
             l_below == lf_below[a_leaf]
             num_parent == Count_Parent(a_leaf, net.parent_array, net_edges)
             sub == Is_Feasible_Node(a_leaf, 1, curr_leaf, indicator, input_leaves,
                                     lf_below, net_edges, net)
         IN IF a_leaf = curr_leaf \/ <<parent, a_leaf>> \notin net_edges THEN next
            ELSE IF net.node_type[a_leaf] = RET
                 THEN IF l_below # -2 /\ l_below = curr_leaf THEN next
                      ELSE IF num_parent >= 2 /\ l_below = -2 THEN 1
                      ELSE IF num_parent <= 1 /\ Is_In(l_below, input_leaves) = indicator THEN 0
                      ELSE next
            ELSE IF net.node_type[a_leaf] = LEAVE
                 THEN IF Is_In(a_leaf, input_leaves) = indicator THEN 0 ELSE next
            ELSE IF net.prog = "parallel" THEN sub
            ELSE IF sub = 0 THEN 0 ELSE next

(* To_Run_Network: every parent still joined to unstb_ret must be feasible; *)
(* ClusterContainment.c stops at the first parent that is the root          *)
RECURSIVE To_Run_Network(_, _, _, _, _, _, _)
To_Run_Network(unstb_ret, k, indicator, input_leaves, lf_below, net_edges, net) ==
    IF k > Len(net.parent_array[unstb_ret]) THEN 1
    ELSE LET parent == net.parent_array[unstb_ret][k]
         IN IF net.prog = "ccp" /\ net.node_type[parent] = ROOT THEN 1
            ELSE IF <<parent, unstb_ret>> \notin net_edges
                 THEN To_Run_Network(unstb_ret, k + 1, indicator, input_leaves,
                                     lf_below, net_edges, net)
            ELSE IF Is_Feasible_Node(parent, 1, lf_below[unstb_ret], indicator,
                                     input_leaves, lf_below, net_edges, net) = 0 THEN 0
            ELSE To_Run_Network(unstb_ret, k + 1, indicator, input_leaves,
                                lf_below, net_edges, net)

(* the programs in which the splitter tries both clones without a test:     *)
(* SoftRFDist_print.c, and the search with both results of To_Run_Network   *)
(* forced to 1, which stands for no program and is run only for comparison  *)
All_Clones == "all clones"
No_Feasibility_Test(prog) == prog \in { "print", All_Clones }

(* the loops over the unstable reticulations that compute run_1st and run_2nd *)
RunNetwork(rets, indicator, input_leaves, lf_below, net_edges, net) ==
    IF \E i \in 1..Len(rets) :
          To_Run_Network(rets[i], 1, indicator, input_leaves, lf_below, net_edges, net) = 0
    THEN 0 ELSE 1

-----------------------------------------------------------------------------
(* One invocation of Cluster_Containment.  A frame holds the arguments that   *)
(* change between invocations: the network copy nw, the position pos of the   *)
(* current component in the list (Len + 1 stands for NULL), inner_flag,       *)
(* lf_below, super_deg, input_leaves and in_cluster.  The outcome is          *)
(*   kind "ret":   the invocation returns code (witness is the printed vertex) *)
(*   kind "call":  it returns the result of the invocation on frame first     *)
(*   kind "split": the splitter ran; first / second are the two clones,       *)
(*                 run_1st / run_2nd tell which of them is to be tried.       *)
(* Field ub records an access outside an array made by the invocation:        *)
(*   0: none;  1: the program crashes at the access or goes on as described;  *)
(*   2: the program crashes or the invocation returns any code.               *)

Outcome(k, c, w, f1, f2, r1, r2, b) ==
    [ kind |-> k, code |-> c, witness |-> w, first |-> f1, second |-> f2,
      run_1st |-> r1, run_2nd |-> r2, brk |-> b, ub |-> 0 ]
Ret(c, w, f) == Outcome("ret", c, w, f, f, 0, 0, 0)
Call(f) == Outcome("call", 0, -1, f, f, 1, 0, 0)
(* a split whose second copy reads the lf_below of the first *)
Split_Aliased(f1, f2, r1, r2) ==
    Outcome("split", 0, -1, f1, [ f2 EXCEPT !.lf_below = f1.lf_below ], r1, r2, 1)

(* brk = 1: *no_break was incremented by the invocation *)
Split(f1, f2, r1, r2) == Outcome("split", 0, -1, f1, f2, r1, r2, 1)

RetSplit(c, f) == Outcome("ret", c, -1, f, f, 0, 0, 1)
Undefined(o, u) == [ o EXCEPT !.ub = IF u > @ THEN u ELSE @ ]

(* a loop over the REVISED reticulations that leaves super_deg as it is *)
NormaliseRevised_Flags_Only(inner_flag, super_deg, r_nodes) ==
    [ inner_flag |-> [ x \in DOMAIN inner_flag |->
                         IF x \in Range(r_nodes) /\ inner_flag[x] = REVISED
                         THEN (IF super_deg[x] > 2 THEN CROSS ELSE INNER)
                         ELSE inner_flag[x] ],
      super_deg |-> super_deg ]

(* the loop that turns REVISED reticulations into CROSS or INNER *)
NormaliseRevised(inner_flag, super_deg, r_nodes) ==
    LET rev == { r_nodes[i] : i \in 1..Len(r_nodes) } \cap
               { x \in DOMAIN inner_flag : inner_flag[x] = REVISED }
    IN [ inner_flag |-> [ x \in DOMAIN inner_flag |->
                            IF x \in rev THEN (IF super_deg[x] > 2 THEN CROSS ELSE INNER)
                            ELSE inner_flag[x] ],
         super_deg |-> [ x \in DOMAIN super_deg |->
                            IF x \in rev THEN (IF super_deg[x] > 2 THEN super_deg[x] - 1 ELSE 1)
                            ELSE super_deg[x] ] ]

(* "decrease B": the input leaves outside the gone list, then the leaf rep *)
DecreaseB(input_leaves, gone, rep) ==
    Append(SelectSeq(input_leaves, LAMBDA x : Is_In(x, gone) = -1), rep)

(* a contraction of B that leaves the bitmap as it was *)
ReviseInCluster_Unrevised(in_cluster, input_leaves1) == in_cluster

(* "revise in_cluster" *)
ReviseInCluster(in_cluster, input_leaves1) ==
    [ i \in DOMAIN in_cluster |-> IF Is_In(i, input_leaves1) = -1 THEN 0 ELSE in_cluster[i] ]

(* "use one stable leaf to replace the current component" *)
ReplaceByLeaf(lf_below, r_nodes, ret_node, leaf) ==
    [ x \in DOMAIN lf_below |->
        IF x = ret_node THEN leaf
        ELSE IF x \in Range(r_nodes) /\ lf_below[x] = leaf THEN -2
        ELSE lf_below[x] ]

(* marking and Vmax for the dynamic programming *)
MarkAndVmax(tree, sleaves, ambig, in_cluster) ==
    LET t0 == Initiallize(tree)
        m1 == MarkLeaves([ tree |-> t0, no_mark |-> 0 ],
                         SelectSeq(ambig, LAMBDA x : in_cluster[x] = 0), 1)
        m2 == MarkLeaves(m1, SelectSeq(sleaves, LAMBDA x : Check_List(ambig, x) = -1
                                                          /\ in_cluster[x] = 0), 1)
    IN [ tree |-> m2.tree,
         vmax |-> IF m2.no_mark = 0 THEN <<tree.label>> ELSE Find_Vmax(m2.tree, <<>>) ]

(* the frame g with the network and lf_below left by Modify_Cross_Ret(1) *)
With_Cross_Ret(g, cr) == [ g EXCEPT !.nw = cr.nw, !.lf_below = cr.lf_below ]

Next_Component(g) == [ g EXCEPT !.pos = @ + 1 ]

(* the stable case after Replace_Ret_Revised (rr), the REVISED loop (nr) and *)
(* the marking (mv), with at least one stable leaf.  SoftRFDist_print.c has *)
(* no case for a single stable leaf, records the leaf below the component   *)
(* also for the root, always decreases B, and returns 0 where the other two *)
(* files return 10.                                                         *)
Resolve_Marked(f, net, rr, nr, mv) ==
    LET p == f.nw.cps[f.pos]
        no1 == Len(f.input_leaves)
        sleaves == rr.st.sleaves
        optional == rr.st.optional
        no_slf == Len(sleaves)
        no_opt == Len(optional)
        (* the frame after Replace_Ret_Revised and the REVISED loop *)
        f1 == [ f EXCEPT !.nw.cps[f.pos].tree_com = rr.tree,
                         !.inner_flag = nr.inner_flag, !.super_deg = nr.super_deg ]
        is_cluster == DProgram_Revised(mv.tree, mv.vmax, 1, f.input_leaves, net.node_type)
        (* the frame after the dynamic programming and Rebuilt_Component *)
        f2 == [ f EXCEPT !.nw.cps[f.pos].tree_com =
                             Rebuilt_Component(mv.tree, rr.st.rpl_comp, net.node_type),
                         !.inner_flag = nr.inner_flag, !.super_deg = nr.super_deg ]
        cr(g, keep) == Modify_Cross_Ret(g.nw, g.lf_below, net.r_nodes, 1, optional,
                                        g.in_cluster, g.pos, net.node_type, keep)
        f3 == IF net.prog = "print" \/ net.node_type[p.ret_node] # ROOT
              THEN [ f2 EXCEPT !.lf_below = ReplaceByLeaf(@, net.r_nodes, p.ret_node, sleaves[1]) ]
              ELSE f2
        count_out == Cardinality({ i \in 1..no_slf : f.in_cluster[sleaves[i]] = 0 })
        count_in == Cardinality({ i \in 1..no_slf : f.in_cluster[sleaves[i]] = 1 })
        num_inleaf == count_in + Cardinality({ i \in 1..no_opt : f.in_cluster[optional[i]] = 1 })
        input_leaves1 == DecreaseB(f.input_leaves, sleaves \o optional, sleaves[1])
    IN IF net.prog # "print" /\ no_opt = 0 /\ no_slf = 1
       THEN IF no1 = 1 /\ sleaves[1] = f.input_leaves[1]
            THEN Ret(50, p.ret_node, f1)
            ELSE Call(Next_Component([ f1 EXCEPT !.lf_below[p.ret_node] = sleaves[1] ]))
       ELSE IF is_cluster >= 0 THEN Ret(50, is_cluster, With_Cross_Ret(f2, cr(f2, 1)))
       ELSE IF count_out = no_slf THEN Call(Next_Component(With_Cross_Ret(f3, cr(f3, 0))))
       ELSE IF count_in = no_slf
            THEN IF num_inleaf = no1
                 THEN Ret(50, f2.nw.cps[f.pos].tree_com.label, With_Cross_Ret(f3, cr(f3, 1)))
                 ELSE IF net.prog = "print" \/ no_slf + no_opt > 1
                      THEN Call(Next_Component([ With_Cross_Ret(f3, cr(f3, 1)) EXCEPT
                                !.input_leaves = input_leaves1,
                                !.in_cluster = ReviseInCluster(@, input_leaves1) ]))
                      ELSE Call(Next_Component(With_Cross_Ret(f3, cr(f3, 1))))
       ELSE Ret(IF net.prog = "print" THEN 0 ELSE 10, -1, f3)

(* the stable case without a stable leaf: the component is rebuilt and the  *)
(* later components lose the edges into its top vertex                      *)
Resolve_No_Leaf(f, net, rr, nr, rebuilt) ==
    Call(Next_Component(
        [ f EXCEPT !.nw = ModifyOthers([ @ EXCEPT !.cps[f.pos].tree_com = rebuilt ],
                                       f.pos + 1, net.node_type, rebuilt.label),
                   !.inner_flag = nr.inner_flag, !.super_deg = nr.super_deg ]))

Resolve(f, net, rr) ==
    IF Len(rr.st.sleaves) > 0
    THEN Resolve_Marked(f, net, rr,
                        NormaliseRevised(rr.st.inner_flag, f.super_deg, net.r_nodes),
                        MarkAndVmax(rr.tree, rr.st.sleaves, rr.st.ambig, f.in_cluster))
    ELSE Resolve_No_Leaf(f, net, rr,
                         NormaliseRevised(rr.st.inner_flag, f.super_deg, net.r_nodes),
                         Rebuilt_Component(rr.tree, rr.st.rpl_comp, net.node_type))

(* a childless reticulation of the component has no leaf below it *)
RECURSIVE Missing_Leaf(_, _, _)
Missing_Leaf(t, node_type, lf_below) ==
    IF t = NullTree THEN FALSE
    ELSE IF Len(t.child) = 0 THEN node_type[t.label] = RET /\ lf_below[t.label] = -2
    ELSE \E i \in 1..Len(t.child) : Missing_Leaf(t.child[i], node_type, lf_below)

(* Cluster_Containment, stable case (the resolver).  Replace_Ret_Revised of   *)
(* SoftRFDist_print.c does not skip a reticulation without a leaf below: it   *)
(* writes rpl_comp[-2] and lists -2 as a leaf, which later indexes in_cluster *)
(* and node_type.                                                            *)
StableCase(f, net) ==
    IF net.prog = "print" /\ Missing_Leaf(f.nw.cps[f.pos].tree_com, net.node_type, f.lf_below)
    THEN Undefined(Ret(0, -1, f), 2)
    ELSE Resolve(f, net,
            Replace_Ret_Revised(f.nw.cps[f.pos].tree_com,
                [ inner_flag |-> f.inner_flag, sleaves |-> <<>>, ambig |-> <<>>,
                  optional |-> <<>>, rpl_comp |-> [ i \in 0..(net.n_l - 1) |-> -1 ] ],
                net.node_type, f.lf_below, f.super_deg, TRUE))

(* Make_Current_Network: the copy of the component list; a component of size 0 *)
(* is copied with an empty tree                                               *)
Make_Current_Network(cps) ==
    [ i \in 1..Len(cps) |-> IF cps[i].size = 0 THEN [ cps[i] EXCEPT !.tree_com = NullTree ]
                            ELSE cps[i] ]

(* the two loops "Begin modifying network".  keep = 1 (unstb_rets_in): the   *)
(* reticulation stays in the current component of the first copy and in the  *)
(* other components of the second; keep = 2 (unstb_rets_out): the reverse.   *)
(* Both loops test inner_flag and read super_deg of the first copy.  In      *)
(* SoftRFDist_print.c the first copy flags an unstb_rets_out reticulation    *)
(* that keeps several parents as REVISED instead of CROSS.                   *)
RECURSIVE SplitRets(_, _, _, _, _, _, _)
SplitRets(fs, rets, i, pos, node_type, keep, prog) ==
    IF i > Len(rets) THEN fs
    ELSE LET r == rets[i]
             cross == fs[1].inner_flag[r] = CROSS
             deg == fs[1].super_deg[r] - 1
             other == 3 - keep
             flags == [ k \in {1, 2} |->
                          IF ~cross THEN fs[k]
                          ELSE IF k = keep
                               THEN [ fs[k] EXCEPT !.inner_flag[r] = INNER, !.super_deg[r] = 1 ]
                               ELSE [ fs[k] EXCEPT !.inner_flag[r] =
                                                       IF deg = 1 THEN INNER
                                                       ELSE IF prog = "print" /\ k = 1 THEN REVISED
                                                       ELSE CROSS,
                                                   !.super_deg[r] = deg ] ]
         IN SplitRets([ k \in {1, 2} |->
                          IF k = keep
                          THEN [ flags[k] EXCEPT !.nw = ModifyOthers(@, pos, node_type, r) ]
                          ELSE [ flags[k] EXCEPT !.nw = ModifyOwn(@, pos, node_type, r) ] ],
                      rets, i + 1, pos, node_type, keep, prog)

(* lf_below of a split copy: the component is replaced by the first leaf of *)
(* its side (or by none; SoftRFDist_print.c then leaves lf_below as it is),  *)
(* and the reticulations of that side lose their leaf                        *)
SplitLfBelow(lf_below, r_nodes, ret_node, rets, lf_comp, prog) ==
    IF Len(lf_comp) = 0
    THEN (IF prog = "print" THEN lf_below ELSE [ lf_below EXCEPT ![ret_node] = -2 ])
    ELSE LET l1 == ReplaceByLeaf(lf_below, r_nodes, ret_node, lf_comp[1])
         IN [ x \in DOMAIN l1 |-> IF x \in Range(rets) THEN -2 ELSE l1[x] ]

(* Find_UnStable fills unstb_rets_in and unstb_rets_out, arrays of n_r       *)
(* entries, and lf_in_comp and lf_out_comp, arrays of no1 entries            *)
Overflows(u, no1, n_r) ==
    IF \/ Len(u.rets_in) > no1 \/ Len(u.rets_out) > no1
       \/ Len(u.rets_in) > n_r \/ Len(u.rets_out) > n_r
    THEN 1 ELSE 0

(* Cluster_Containment, unstable case (the splitter), after Find_UnStable.   *)
(* SoftRFDist_print.c has no feasibility test: both copies are to be tried.  *)
Split_Component(f, net, u) ==
    LET p == f.nw.cps[f.pos]
        no1 == Len(f.input_leaves)
        lf_in_comp == [ i \in 1..Len(u.rets_in) |-> f.lf_below[u.rets_in[i]] ]
        lf_out_comp == [ i \in 1..Len(u.rets_out) |-> f.lf_below[u.rets_out[i]] ]
        no_in_lfb == Len(lf_in_comp)
        copy == [ f EXCEPT !.nw.cps = Make_Current_Network(@) ]
        s1 == SplitRets(<<f, copy>>, u.rets_in, 1, f.pos, net.node_type, 1, net.prog)
        s2 == SplitRets(s1, u.rets_out, 1, f.pos, net.node_type, 2, net.prog)
        first0 == [ s2[1] EXCEPT !.lf_below = SplitLfBelow(@, net.r_nodes, p.ret_node,
                                                         u.rets_in, lf_in_comp, net.prog) ]
        second0 == [ s2[2] EXCEPT !.lf_below = SplitLfBelow(@, net.r_nodes, p.ret_node,
                                                          u.rets_out, lf_out_comp, net.prog) ]
        run_1st == IF No_Feasibility_Test(net.prog) THEN 1
                   ELSE RunNetwork(u.rets_out, 1, f.input_leaves, first0.lf_below,
                                   first0.nw.net_edges, net)
        run_2nd == IF No_Feasibility_Test(net.prog) THEN 1
                   ELSE RunNetwork(u.rets_in, -1, f.input_leaves, second0.lf_below,
                                   second0.nw.net_edges, net)
        input_leaves1 == DecreaseB(f.input_leaves, lf_in_comp, lf_in_comp[1])
        first == IF no_in_lfb > 1
                 THEN [ first0 EXCEPT !.pos = @ + 1, !.input_leaves = input_leaves1,
                                      !.in_cluster = ReviseInCluster(@, input_leaves1) ]
                 ELSE [ first0 EXCEPT !.pos = @ + 1 ]
        second == [ second0 EXCEPT !.pos = @ + 1 ]
    IN IF no_in_lfb = no1 THEN Ret(50, p.tree_com.label, f)
       ELSE IF Len(u.rets_in) > 0 \/ Len(u.rets_out) > 0
            THEN IF run_1st = 0 /\ run_2nd = 0 THEN RetSplit(10, first0)
                 ELSE Split(first, second, run_1st, run_2nd)
       ELSE Call([ f EXCEPT !.nw = Modify2(@, f.pos + 1, net.node_type, p.ret_node),
                            !.pos = @ + 1 ])

Split_Checked(f, net, u) ==
    Undefined(Split_Component(f, net, u), Overflows(u, Len(f.input_leaves), net.n_r))

UnstableCase(f, net) ==
    Split_Checked(f, net, Find_UnStable(f.nw.cps[f.pos].tree_com, f.input_leaves,
                                        net.node_type, f.inner_flag, f.lf_below))

(* the three cases of Cluster_Containment for a component that is not NULL *)
Contain_Component(f, net) ==
    IF f.nw.cps[f.pos].tree_com = NullTree
    THEN Call([ f EXCEPT !.nw = Modify2(@, f.pos + 1, net.node_type,
                                        f.nw.cps[f.pos].ret_node),
                         !.pos = @ + 1 ])
    ELSE IF Is_Stable(f.nw.cps[f.pos].tree_com, net.node_type, f.inner_flag, f.lf_below) = 1
         THEN StableCase(f, net)
         ELSE UnstableCase(f, net)

(* SoftRFDist_print.c prints node_strings[lf_below[r]] for every reticulation *)
(* r on entry; lf_below[r] is -2 for a reticulation without a leaf below      *)
Prints_Missing_Leaf(f, net) ==
    IF net.prog = "print" /\ \E i \in 1..Len(net.r_nodes) : f.lf_below[net.r_nodes[i]] = -2
    THEN 1 ELSE 0

(* Cluster_Containment: one invocation on frame f *)
Cluster_Containment(f, net) ==
    IF f.pos > Len(f.nw.cps) THEN Ret(0, -1, f)
    ELSE Undefined(Contain_Component(f, net), Prints_Missing_Leaf(f, net))

-----------------------------------------------------------------------------
(* main of ClusterContainment.c up to the call of Cluster_Containment        *)

(* the indices of the given type, in increasing order *)
RECURSIVE IndicesOf(_, _, _)
IndicesOf(node_type, ty, i) ==
    IF i \notin DOMAIN node_type THEN <<>>
    ELSE IF node_type[i] = ty THEN <<i>> \o IndicesOf(node_type, ty, i + 1)
    ELSE IndicesOf(node_type, ty, i + 1)

(* reading, classification and leaf reordering (main, lines 2086-2142): the  *)
(* edges rd, the first classification t1, the reordering mv of the leaves to *)
(* the front and the second classification                                   *)
Network_Reclassified(rd, t1, mv, t2) ==
    [ x |-> t1.x, no_nodes |-> rd.no_nodes, node_strings |-> mv.node_strings,
      start |-> mv.start, end |-> mv.end, node_type |-> t2.node_type, root |-> t2.root,
      n_l |-> Len(IndicesOf(t1.node_type, LEAVE, 0)),
      n_r |-> Len(IndicesOf(t1.node_type, RET, 0)) ]

Network_Reordered(rd, t1, mv) ==
    Network_Reclassified(rd, t1, mv,
        Node_Type_Inform1(t1.node_type, t1.root, rd.no_nodes, mv.start, mv.end))

Net_Leaves(rd, lv) == [ k \in 1..Len(lv) |-> rd.node_strings[lv[k] + 1] ]

Network_Classified(rd, t1) ==
    Network_Reordered(rd, t1,
        Move_Leaves_Front(rd.node_strings, rd.start, rd.end,
                          Net_Leaves(rd, IndicesOf(t1.node_type, LEAVE, 0)), 0))

Network_Read(rd) ==
    Network_Classified(rd, Node_Type_Inform1([ i \in 0..(rd.no_nodes - 1) |-> 0 ], 0,
                                             rd.no_nodes, rd.start, rd.end))

ReadNetwork(file) == Network_Read(ReadEdges(file))

(* Preprocess_Network of the two SRFD programs sorts the leaves by name after *)
(* moving them to the front                                                   *)
Leaves_Sorted(mv, n_l) == Sort_Leaves(mv.node_strings, mv.start, mv.end, n_l, 0, 1)

Network_Sorted(rd, t1) ==
    Network_Reordered(rd, t1,
        Leaves_Sorted(Move_Leaves_Front(rd.node_strings, rd.start, rd.end,
                                        Net_Leaves(rd, IndicesOf(t1.node_type, LEAVE, 0)), 0),
                      Len(IndicesOf(t1.node_type, LEAVE, 0))))

Network_Read_Sorted(rd) ==
    Network_Sorted(rd, Node_Type_Inform1([ i \in 0..(rd.no_nodes - 1) |-> 0 ], 0,
                                         rd.no_nodes, rd.start, rd.end))

ReadSortedNetwork(file) == Network_Read_Sorted(ReadEdges(file))

(* Add_Component_Array / Add_Component_Root followed by Build_Comp_Revised *)
Add_Component(ret, top, inn, child_array, node_type) ==
    LET t == Build_Comp_Revised(top, child_array, node_type)
    IN [ ret_node |-> ret, inner |-> inn, tree_com |-> t,
         size |-> 1 + BuiltSize(t),
         no_tree_node |-> (IF node_type[top] = RET THEN 0 ELSE 1) + BuiltTreeNodes(t, node_type) ]

(* the leading components whose reticulation sits on a leaf are skipped and *)
(* their leaf recorded in lf_below (main, lines 2251-2265)                  *)
RECURSIVE SkipLeafRets(_, _, _, _, _)
SkipLeafRets(cps, i, lf_below, node_type, child_array) ==
    IF /\ i <= Len(cps)
       /\ node_type[cps[i].ret_node] # ROOT
       /\ node_type[child_array[cps[i].ret_node][1]] = LEAVE
    THEN SkipLeafRets(cps, i + 1,
                      [ lf_below EXCEPT ![cps[i].ret_node] = child_array[cps[i].ret_node][1] ],
                      node_type, child_array)
    ELSE [ pos |-> i, lf_below |-> lf_below ]

(* inner_flag: CROSS for the root, Is_Inner_Revised for the reticulations *)
Inner_Flags(rn, r_nodes, parent_array) ==
    [ v \in 0..(rn.no_nodes - 1) |->
        IF v = rn.root THEN CROSS
        ELSE IF v \in Range(r_nodes) THEN Is_Inner_Revised(v, parent_array, rn.node_type)
        ELSE -2 ]

(* the component list: one component per sorted reticulation, then the root's *)
Components(rn, r_nodes, inner_flag, child_array) ==
    [ i \in 1..(Len(r_nodes) + 1) |->
        IF i <= Len(r_nodes)
        THEN Add_Component(r_nodes[i], child_array[r_nodes[i]][1], inner_flag[r_nodes[i]],
                           child_array, rn.node_type)
        ELSE Add_Component(rn.root, rn.root, CROSS, child_array, rn.node_type) ]

(* super_deg: the number of components in which a reticulation is a leaf *)
Super_Degrees(rn, r_nodes, cps) ==
    [ v \in 0..(rn.no_nodes - 1) |->
        IF v \in Range(r_nodes)
        THEN SeqSum([ j \in 1..Len(cps) |-> Is_In_Comp(cps[j].tree_com, v) ])
        ELSE 0 ]

(* the static description of a network and the first frame (main, lines 2193-2265) *)
First_Frame(rn, r_nodes, inner_flag, cps, sk) ==
    [ nw |-> [ cps |-> cps,
               net_edges |-> { <<rn.start[k], rn.end[k]>> : k \in 1..Len(rn.start) } ],
      pos |-> sk.pos, inner_flag |-> inner_flag, lf_below |-> sk.lf_below,
      super_deg |-> Super_Degrees(rn, r_nodes, cps), input_leaves |-> <<>>,
      in_cluster |-> [ i \in 0..(rn.n_l - 1) |-> 0 ] ]

Static_Network(rn, cp, r_nodes, prog) ==
    [ prog |-> prog, no_nodes |-> rn.no_nodes, node_strings |-> rn.node_strings,
      node_type |-> rn.node_type, root |-> rn.root, n_l |-> rn.n_l, n_r |-> rn.n_r,
      r_nodes |-> r_nodes, child_array |-> cp.child_array, parent_array |-> cp.parent_array ]

Preprocess_Components(rn, cp, r_nodes, inner_flag, cps, prog) ==
    [ net |-> Static_Network(rn, cp, r_nodes, prog),
      frame |-> First_Frame(rn, r_nodes, inner_flag, cps,
                    IF Len(r_nodes) > 0
                    THEN SkipLeafRets(cps, 1, [ v \in 0..(rn.no_nodes - 1) |-> -2 ],
                                      rn.node_type, cp.child_array)
                    ELSE [ pos |-> 1, lf_below |-> [ v \in 0..(rn.no_nodes - 1) |-> -2 ] ]) ]

Preprocess_Flags(rn, cp, r_nodes, inner_flag, prog) ==
    Preprocess_Components(rn, cp, r_nodes, inner_flag,
                          Components(rn, r_nodes, inner_flag, cp.child_array), prog)

Preprocess_Sorted(rn, cp, r_nodes, prog) ==
    Preprocess_Flags(rn, cp, r_nodes, Inner_Flags(rn, r_nodes, cp.parent_array), prog)

(* the reticulations are ordered by Sort_Rets_By_Level, in SoftRFDist_print.c *)
(* by Sort_Rets_Revised                                                      *)
Preprocess_Children(rn, cp, tie, prog) ==
    Preprocess_Sorted(rn, cp,
                      IF prog = "print"
                      THEN Sort_Rets_Revised(IndicesOf(rn.node_type, RET, 0), cp.child_array,
                                             cp.parent_array, rn.node_type)
                      ELSE Sort_Rets_By_Level(IndicesOf(rn.node_type, RET, 0), cp.child_array,
                                              rn.node_type, tie), prog)

Preprocess(rn, tie, prog) ==
    Preprocess_Children(rn, Child_Parent_Inform(rn.no_nodes, rn.start, rn.end), tie, prog)

(* main does not come back from its call of Sort_Rets_By_Level *)
Never_Sorted(rn) ==
    Sort_Rets_Forever(IndicesOf(rn.node_type, RET, 0),
                      Child_Parent_Inform(rn.no_nodes, rn.start, rn.end).child_array,
                      rn.node_type)

(* in_cluster and input_leaves from the names of the leaf file (main, 2144-2156) *)
InCluster(rn, leave_names) ==
    [ i \in 0..(rn.n_l - 1) |-> IF Is_In(rn.node_strings[i + 1], leave_names) = 1 THEN 1 ELSE 0 ]

InputLeaves(in_cluster) ==
    SelectSeq([ k \in 1..Cardinality(DOMAIN in_cluster) |-> k - 1 ],
              LAMBDA i : in_cluster[i] = 1)

-----------------------------------------------------------------------------
(* The input files.  A generated network has the vertices 0..N-1, vertex 0   *)
(* is the root and the parents of vertex c are at most MaxParents smaller    *)
(* vertices; its file lists the edges by child.  Named networks are added.   *)

(* the elements of a set of integers in increasing order *)
RECURSIVE LeafFile(_)
LeafFile(S) ==
    IF S = {} THEN <<>>
    ELSE LET m == CHOOSE x \in S : \A y \in S : x <= y
         IN <<m>> \o LeafFile(S \ {m})

ParentChoices(c) ==
    { LeafFile(S) : S \in { T \in SUBSET (0..(c - 1)) :
                               T # {} /\ Cardinality(T) <= MaxParents } }

RECURSIVE ParentTables(_)
ParentTables(n) ==
    IF n = 1 THEN { <<>> }
    ELSE { Append(s, ps) : s \in ParentTables(n - 1), ps \in ParentChoices(n - 1) }

(* out-degree of v in a parent table; par[c] are the parents of vertex c *)
TableOut(par, v) == Cardinality({ c \in 1..Len(par) : v \in Range(par[c]) })

(* root with two children or more, reticulations with exactly one child *)
ValidTable(par) ==
    /\ TableOut(par, 0) >= 2
    /\ \A c \in 1..Len(par) : Len(par[c]) >= 2 => TableOut(par, c) = 1

RECURSIVE TableFile(_, _)
TableFile(par, c) ==
    IF c > Len(par) THEN <<>>
    ELSE [ k \in 1..Len(par[c]) |-> <<par[c][k], c>> ] \o TableFile(par, c + 1)

GeneratedFiles ==
    { TableFile(par, 1) : par \in { q \in UNION { ParentTables(n) : n \in MinNodes..MaxNodes } :
                                       ValidTable(q) } }

(* the example of the file header of ClusterContainment.c; leaf1..leaf4 are 101..104 *)
HeaderFile ==
    << <<1, 2>>, <<1, 3>>, <<3, 4>>, <<4, 5>>, <<2, 6>>, <<3, 6>>,
       <<6, 101>>, <<5, 102>>, <<5, 103>>, <<4, 104>> >>

(* a network on which the feasibility test of the splitter discards a copy *)
PrunedFile ==
    << <<2, 4>>, <<2, 6>>, <<0, 7>>, <<6, 8>>, <<8, 5>>, <<4, 9>>, <<4, 6>>, <<7, 8>>,
       <<2, 3>>, <<7, 2>>, <<0, 1>> >>

(* a network with two reticulations of equal component size on one level *)
TiedFile ==
    << <<2, 4>>, <<2, 3>>, <<7, 5>>, <<8, 5>>, <<6, 7>>, <<0, 8>>, <<6, 2>>, <<2, 7>>,
       <<0, 6>>, <<5, 1>>, <<2, 8>> >>

(* a network whose reticulation 8 hangs twice below the component of        *)
(* reticulation 2                                                           *)
TwiceBelowFile ==
    << <<0, 1>>, <<0, 2>>, <<1, 2>>, <<2, 3>>, <<3, 4>>, <<0, 5>>, <<0, 6>>, <<0, 8>>,
       <<3, 8>>, <<4, 8>>, <<8, 9>> >>

(* a network whose reticulation 3, with the leaf 7 below it, hangs below the *)
(* component of reticulation 4, next to the leaf 8, and below the component *)
(* of the root                                                              *)
CrossFile ==
    << <<0, 1>>, <<0, 2>>, <<0, 6>>, <<1, 4>>, <<1, 9>>, <<2, 4>>, <<2, 3>>, <<4, 5>>,
       <<5, 3>>, <<5, 8>>, <<3, 7>> >>

(* a network whose reticulation 7 has three parents, in the components of  *)
(* the reticulations 3 and 4 and of the root                               *)
ThreeParentsFile ==
    << <<0, 1>>, <<0, 2>>, <<0, 7>>, <<1, 3>>, <<1, 4>>, <<2, 3>>, <<2, 4>>, <<3, 5>>,
       <<5, 7>>, <<5, 8>>, <<4, 6>>, <<6, 7>>, <<6, 9>>, <<7, 10>> >>

(* a network whose reticulation 3 has an unstable component: its frontier  *)
(* is the two reticulations 5 and 6, each with a leaf and with a parent in *)
(* the component of the root                                               *)
SplitFile ==
    << <<0, 1>>, <<0, 2>>, <<1, 3>>, <<1, 5>>, <<1, 7>>, <<2, 3>>, <<2, 6>>, <<2, 8>>,
       <<3, 4>>, <<4, 5>>, <<4, 6>>, <<5, 9>>, <<6, 10>> >>

(* a network of twelve vertices on which Find_UnStable finds more          *)
(* reticulations than B has leaves                                         *)
WideFile ==
    << <<4, 8>>, <<0, 3>>, <<5, 7>>, <<1, 8>>, <<0, 5>>, <<4, 6>>, <<9, 10>>, <<2, 4>>,
       <<8, 11>>, <<0, 2>>, <<0, 1>>, <<6, 8>>, <<0, 9>>, <<4, 9>>, <<7, 9>>, <<1, 2>> >>

(* a network in which a parent of a reticulation has a tree child, then a  *)
(* leaf child                                                              *)
SiblingFile ==
    << <<0, 1>>, <<0, 2>>, <<1, 2>>, <<1, 6>>, <<2, 3>>, <<3, 4>>, <<3, 5>>, <<6, 7>>,
       <<6, 8>>, <<6, 4>>, <<7, 9>>, <<7, 10>>, <<0, 5>>, <<4, 11>>, <<5, 12>> >>

NamedFiles ==
    { HeaderFile, PrunedFile, TiedFile, TwiceBelowFile, CrossFile, ThreeParentsFile,
      SplitFile, WideFile, SiblingFile }

(* SRFD: a network with a reticulation above a tree vertex, and the star tree *)
(* on its leaves                                                             *)
DeepFile ==
    << <<0, 1>>, <<0, 2>>, <<1, 3>>, <<2, 3>>, <<3, 4>>, <<4, 5>>, <<4, 6>>, <<1, 7>>,
       <<2, 8>> >>

StarFile == << <<0, 5>>, <<0, 6>>, <<0, 7>>, <<0, 8>> >>

NamedDistanceFiles == { DeepFile, StarFile }

NetworkFiles == GeneratedFiles \cup NamedFiles

(* edge lists that are not networks: two vertices without a parent and with *)
(* two children; a vertex with two parents and two children; no vertex      *)
(* without a parent; a vertex without a parent and with one child; a vertex *)
(* with two parents and no child.  Each has at most two leaves.             *)
TwoRootsFile == << <<0, 1>>, <<0, 2>>, <<3, 2>>, <<3, 4>> >>
BothDegreesFile == << <<0, 1>>, <<0, 2>>, <<1, 2>>, <<2, 3>>, <<2, 4>> >>
NoRootFile == << <<0, 1>>, <<1, 0>>, <<1, 2>> >>
SingleChildRootFile == << <<0, 1>>, <<1, 2>>, <<1, 3>> >>
ChildlessRetFile == << <<0, 1>>, <<0, 2>>, <<1, 3>>, <<2, 3>>, <<1, 4>> >>

MalformedFiles ==
    { TwoRootsFile, BothDegreesFile, NoRootFile, SingleChildRootFile, ChildlessRetFile }

(* an edge list with a cycle: the reticulation 3 is the child of its child, *)
(* the tree vertex 4; every vertex has the degrees of one of the four types *)
CyclicFile ==
    << <<0, 1>>, <<0, 2>>, <<0, 6>>, <<1, 3>>, <<3, 4>>, <<4, 3>>, <<4, 5>> >>

(* edges, vertices, parents and reticulations of a file *)
FileEdges(file) == { file[k] : k \in 1..Len(file) }
FileVertices(file) == { e[1] : e \in FileEdges(file) } \cup { e[2] : e \in FileEdges(file) }
FileParents(file, v) == { e[1] : e \in { d \in FileEdges(file) : d[2] = v } }
FileReticulations(file) == { v \in FileVertices(file) : Cardinality(FileParents(file, v)) > 1 }

(* the names that occur as a leaf in a file *)
LeafNames(file) ==
    { file[k][2] : k \in 1..Len(file) } \ { file[k][1] : k \in 1..Len(file) }

(* names that are not leaves of a file: its least vertex with a child, and  *)
(* a name that the file does not have                                       *)
OtherNames(file) ==
    { CHOOSE v \in FileVertices(file) \ LeafNames(file) :
        \A w \in FileVertices(file) \ LeafNames(file) : v <= w,
      1 + CHOOSE v \in FileVertices(file) : \A w \in FileVertices(file) : w <= v }

(* the leaf files given with a network file: any set of its leaves; for the *)
(* file header example and the malformed files also sets with other names;  *)
(* a malformed file is not given with the empty leaf file                   *)
LeafFiles(file) ==
    IF file \in MalformedFiles
    THEN { LeafFile(S) : S \in SUBSET (LeafNames(file) \cup OtherNames(file)) } \ { << >> }
    ELSE IF file = HeaderFile
    THEN { LeafFile(S) : S \in SUBSET (LeafNames(file) \cup OtherNames(file)) }
    ELSE { LeafFile(S) : S \in SUBSET LeafNames(file) }

-----------------------------------------------------------------------------
(* A whole run of Cluster_Containment: the invocations that follow the first *)
(* one, with the second copies of the splits kept on the stack pend.         *)

RECURSIVE RunCC(_, _, _)
RECURSIVE RunCC_Next(_, _, _)
RunCC(f, pend, net) == RunCC_Next(Cluster_Containment(f, net), pend, net)
RunCC_Next(o, pend, net) ==
    IF o.kind = "call" THEN RunCC(o.first, pend, net)
    ELSE IF o.kind = "split"
    THEN RunCC(IF o.run_1st = 1 THEN o.first ELSE o.second,
               IF o.run_1st = 1 /\ o.run_2nd = 1 THEN <<o.second>> \o pend ELSE pend, net)
    ELSE IF o.code = 50 THEN [ res |-> 50, witness |-> net.node_strings[o.witness + 1] ]
    ELSE IF pend # <<>> THEN RunCC(Head(pend), Tail(pend), net)
    ELSE [ res |-> o.code, witness |-> -1 ]

(* the answer of main after Cluster_Containment has returned *)
CCP_Report(r) ==
    [ output |-> IF r.res = 50 THEN "cluster" ELSE "not a cluster",
      res |-> r.res, witness |-> r.witness ]

CCP_Result(pp, in_cluster, input_leaves) ==
    CCP_Report(RunCC([ pp.frame EXCEPT !.input_leaves = input_leaves,
                                       !.in_cluster = in_cluster ], <<>>, pp.net))

(* a test of main that takes every value of Node_Type_Inform1 for a network; *)
(* C14 fails under it                                                       *)
Bad_Topology_Never(x) == FALSE

(* a test of main that takes every leaf file; C16 fails under it *)
Unknown_Leaf_Never(check_leaves, no1) == FALSE

(* the two tests of main that end the program with code 10: the value of   *)
(* Node_Type_Inform1, and the number of leaves of the network found in the  *)
(* leaf file against the number no1 of names in it                          *)
Bad_Topology(x) == x < 0

Unknown_Leaf(check_leaves, no1) == check_leaves # no1

(* main of ClusterContainment.c from the files to the printed answer *)
CCP_Answer(rn, leave_names, in_cluster, input_leaves, tie) ==
    IF Bad_Topology(rn.x) THEN [ output |-> "bad network", res |-> 10, witness |-> -1 ]
    ELSE IF Unknown_Leaf(Len(input_leaves), Len(leave_names))
    THEN [ output |-> "bad leaf", res |-> 10, witness |-> -1 ]
    ELSE IF Len(leave_names) = 1 \/ rn.n_l = Len(leave_names)
    THEN [ output |-> "trivial", res |-> 0, witness |-> -1 ]
    ELSE IF Never_Sorted(rn) THEN [ output |-> "none", res |-> -1, witness |-> -1 ]
    ELSE CCP_Result(Preprocess(rn, tie, "ccp"), in_cluster, input_leaves)

CCP_Leaves(rn, leave_names, in_cluster, tie) ==
    CCP_Answer(rn, leave_names, in_cluster, InputLeaves(in_cluster), tie)

CCP_Network(rn, leave_names, tie) ==
    CCP_Leaves(rn, leave_names, InCluster(rn, leave_names), tie)

CCP(file, leave_names, tie) == CCP_Network(ReadNetwork(file), leave_names, tie)

-----------------------------------------------------------------------------
(* The SRFD programs: helpers on unsigned words and on subsets               *)

(* the number of bits of an unsigned int; the words of the model stay below *)
(* 2^31, so that no shift or sum of the code wraps around                   *)
WLEN == 32

RECURSIVE BitAnd(_, _)
BitAnd(a, b) ==
    IF a = 0 \/ b = 0 THEN 0
    ELSE (a % 2) * (b % 2) + 2 * BitAnd(a \div 2, b \div 2)

RECURSIVE BitOr(_, _)
BitOr(a, b) ==
    IF a = 0 THEN b ELSE IF b = 0 THEN a
    ELSE (IF a % 2 = 1 \/ b % 2 = 1 THEN 1 ELSE 0) + 2 * BitOr(a \div 2, b \div 2)

RECURSIVE BitXor(_, _)
BitXor(a, b) ==
    IF a = 0 THEN b ELSE IF b = 0 THEN a
    ELSE ((a + b) % 2) + 2 * BitXor(a \div 2, b \div 2)

(* a pop that looks at the lowest bit only; the value C11 fails under it *)
pop_Lowest_Bit(x) == x % 2

(* pop: the number of ones of x, clearing the lowest one per round *)
RECURSIVE pop(_)
pop(x) == IF x = 0 THEN 0 ELSE 1 + pop(BitAnd(x, (x - 1)))

(* int_to_bin_digit: out[i] is the bit of the mask after i shifts of in to the left *)
int_to_bin_digit(in, count) ==
    [ i \in 0..(count - 1) |->
        IF BitAnd((in * (2 ^ i)), (2 ^ (count - 1))) # 0 THEN 1 ELSE 0 ]

(* nChoosek: the running product of the loop, with the integer division of C *)
RECURSIVE Choose_Loop(_, _, _, _)
Choose_Loop(result, n, k, i) ==
    IF i > k THEN result
    ELSE Choose_Loop((result * (n - i + 1)) \div i, n, k, i + 1)

Choose_Smaller(n, k) == IF k = 0 THEN 1 ELSE Choose_Loop(n, n, k, 2)

nChoosek(n, k) ==
    IF k > n THEN 0
    ELSE Choose_Smaller(n, IF k * 2 > n THEN n - k ELSE k)

(* i4vec_indicator0: the first n entries of a become 0, 1, ..., n-1 *)
i4vec_indicator0(n, a) == [ i \in 1..Len(a) |-> IF i <= n THEN i - 1 ELSE a[i] ]

(* ksub_next: the successor of the subset a of size k; jsave is the first   *)
(* position whose entry can grow, k-1 if there is none                       *)
Ksub_Advance(jsave, a) == [ i4vec_indicator0(jsave, a) EXCEPT ![jsave + 1] = @ + 1 ]

(* a ksub_next that gives the lexicographic successor: the last entry that  *)
(* can grow grows and the entries after it follow it; the order C13 of the  *)
(* code fails under it                                                      *)
Lex_Successor(n, k, a, i) ==
    [ j \in 1..k |-> IF j < i THEN a[j] ELSE a[i] + 1 + (j - i) ]

ksub_next_Lexicographic(n, k, a) ==
    IF \E i \in 1..k : a[i] < n - k + i - 1
    THEN Lex_Successor(n, k, a, CHOOSE i \in 1..k :
                                   /\ a[i] < n - k + i - 1
                                   /\ \A m \in (i + 1)..k : ~(a[m] < n - k + m - 1))
    ELSE a

(* a ksub_next that resets the entries below jsave without the increment;  *)
(* the coverage C12 fails under it                                          *)
ksub_next_No_Increment(n, k, a) == i4vec_indicator0(k - 1, a)

ksub_next(n, k, a) ==
    IF a[1] < n - k + 1
    THEN Ksub_Advance(IF \E j \in 0..(k - 2) : a[j + 1] + 1 < a[j + 2]
                      THEN CHOOSE j \in 0..(k - 2) :
                             /\ a[j + 1] + 1 < a[j + 2]
                             /\ \A m \in 0..(j - 1) : ~(a[m + 1] + 1 < a[m + 2])
                      ELSE k - 1, a)
    ELSE a

(* the bit arrays res1 and res2: sequences of words *)
BITNSLOTS(nb) == (nb + WLEN - 1) \div WLEN
BITSET(a, b) == [ a EXCEPT ![(b \div WLEN) + 1] = BitOr(@, 2 ^ (b % WLEN)) ]
BITTEST(a, b) == BitAnd(a[(b \div WLEN) + 1], 2 ^ (b % WLEN))

(* the text printed by %.1f for no_diff / 2: units and tenths *)
Halves(no_diff) == << no_diff \div 2, 5 * (no_diff % 2) >>

-----------------------------------------------------------------------------
(* Is_Cluster of the SRFD programs.  A run of Cluster_Containment gives a set *)
(* of codes: one code where the run is defined, and Crashed or any code where *)
(* it reads or writes outside an array.                                       *)

Crashed == -1

RECURSIVE RunSRFD(_, _, _)
RECURSIVE RunSRFD_Next(_, _, _)
RunSRFD(f, pend, net) == RunSRFD_Next(Cluster_Containment(f, net), pend, net)
RunSRFD_Next(o, pend, net) ==
    (IF o.ub > 0 THEN { Crashed } ELSE {}) \cup
    (IF o.ub = 2 THEN { 0, 50 }
     ELSE IF o.kind = "call" THEN RunSRFD(o.first, pend, net)
     ELSE IF o.kind = "split"
     THEN RunSRFD(IF o.run_1st = 1 THEN o.first ELSE o.second,
                  IF o.run_1st = 1 /\ o.run_2nd = 1 THEN <<o.second>> \o pend ELSE pend, net)
     ELSE IF o.code = 50 THEN { 50 }
     ELSE IF pend # <<>> THEN RunSRFD(Head(pend), Tail(pend), net)
     ELSE { o.code })

(* the copies made by Is_Cluster and its call of Cluster_Containment *)
Cluster_Codes(pp, in_cluster, input_leaves) ==
    RunSRFD([ pp.frame EXCEPT !.input_leaves = input_leaves, !.in_cluster = in_cluster ],
            <<>>, pp.net)

(* Is_Cluster of SoftRFDist_parallel.c: 1 when exactly one network has the   *)
(* cluster; a subset of size 0 or n_l returns without a value                *)
Count_Difference(r1, r2) ==
    IF r1 = Crashed \/ r2 = Crashed THEN Crashed
    ELSE IF (r1 = 50 /\ r2 < 50) \/ (r2 = 50 /\ r1 < 50) THEN 1 ELSE 0

Is_Cluster(in_cluster, r, pp1, pp2) ==
    IF r = 0 \/ r = pp1.net.n_l THEN { 0, 1 }
    ELSE IF r = 1 THEN { 0 }
    ELSE { Count_Difference(r1, r2) :
             r1 \in Cluster_Codes(pp1, in_cluster, InputLeaves(in_cluster)),
             r2 \in Cluster_Codes(pp2, in_cluster, InputLeaves(in_cluster)) }

(* Is_Cluster of SoftRFDist_print.c: the bit no_res of res1 and of res2 is   *)
(* set for a subset of size 1 and for a positive code of the network         *)
Bits(res1, res2, no_res, crashed) ==
    [ res1 |-> res1, res2 |-> res2, no_res |-> no_res, crashed |-> crashed ]

Set_Bits(r1, r2, res1, res2, no_res) ==
    IF r1 = Crashed \/ r2 = Crashed THEN Bits(res1, res2, no_res, TRUE)
    ELSE Bits(IF r1 > 0 THEN BITSET(res1, no_res) ELSE res1,
              IF r2 > 0 THEN BITSET(res2, no_res) ELSE res2, no_res + 1, FALSE)

In_Cluster_Of(input_leaves, r, n_l) ==
    [ i \in 0..(n_l - 1) |-> IF \E j \in 1..r : input_leaves[j] = i THEN 1 ELSE 0 ]

Is_Cluster_Bits(input_leaves, r, res1, res2, no_res, pp1, pp2) ==
    IF r = 0 \/ r = pp1.net.n_l THEN { Bits(res1, res2, no_res, FALSE) }
    ELSE IF r = 1
    THEN { Bits(BITSET(res1, no_res), BITSET(res2, no_res), no_res + 1, FALSE) }
    ELSE { Set_Bits(r1, r2, res1, res2, no_res) :
             r1 \in Cluster_Codes(pp1, In_Cluster_Of(input_leaves, r, pp1.net.n_l),
                                  SubSeq(input_leaves, 1, r)),
             r2 \in Cluster_Codes(pp2, In_Cluster_Of(input_leaves, r, pp1.net.n_l),
                                  SubSeq(input_leaves, 1, r)) }

-----------------------------------------------------------------------------
(* The loops of Find_Cluster_Distance and the printed answer                 *)

(* SoftRFDist_print.c: Subset_CCP starts every size k with 0, ..., k-1 in a  *)
(* fresh array and calls ksub_next before each of the other subsets; a loop  *)
(* state is the size k, the number j of the subset and the array             *)
First_Subset(k) ==
    [ k |-> k, j |-> 0, input_leaves |-> i4vec_indicator0(k, [ i \in 1..k |-> 0 ]) ]

Next_Subset(s, n_l) ==
    IF s.j + 1 < nChoosek(n_l, s.k)
    THEN [ k |-> s.k, j |-> s.j + 1, input_leaves |-> ksub_next(n_l, s.k, s.input_leaves) ]
    ELSE First_Subset(s.k + 1)

No_Bits(n_l) ==
    Bits([ i \in 1..BITNSLOTS((2 ^ n_l)) |-> 0 ],
         [ i \in 1..BITNSLOTS((2 ^ n_l)) |-> 0 ], 0, FALSE)

NoDist == << >>
Answer(o, d) == [ output |-> o, dist |-> d ]

(* dist: the ones of res1 ^ res2 over all words, halved *)
Print_Distance(res1, res2) ==
    Halves(SeqSum([ i \in 1..Len(res1) |-> pop(BitXor(res1[i], res2[i])) ]))

(* the answers of SoftRFDist_print.c from loop state s and bits b on *)
RECURSIVE Print_Run(_, _, _, _)
Print_Run(s, b, pp1, pp2) ==
    IF b.crashed THEN { Answer("crash", NoDist) }
    ELSE IF s.k >= pp1.net.n_l THEN { Answer("distance", Print_Distance(b.res1, b.res2)) }
    ELSE UNION { Print_Run(Next_Subset(s, pp1.net.n_l), o, pp1, pp2) :
                   o \in Is_Cluster_Bits(s.input_leaves, s.k, b.res1, b.res2, b.no_res,
                                         pp1, pp2) }

(* SoftRFDist_parallel.c: the loop over k = 1 .. no_res - 2 with schedule    *)
(* (static, chunksize) deals the chunks to the threads in turn; the m-th     *)
(* iteration of thread t has the number below, counted from 0                *)
Static_Iteration(t, m, chunksize, num_thread) ==
    ((m \div chunksize) * num_thread + t) * chunksize + (m % chunksize)

(* the value of a sum when a summand may be Crashed *)
Add_Difference(v, rest) == IF v = Crashed \/ rest = Crashed THEN Crashed ELSE v + rest

(* the sums of Is_Cluster over the iterations from k on *)
RECURSIVE Parallel_Sums(_, _, _, _)
Parallel_Sums(k, no_res, pp1, pp2) ==
    IF k >= no_res - 1 THEN { 0 }
    ELSE { Add_Difference(v, rest) :
             v \in Is_Cluster(int_to_bin_digit(k, pp1.net.n_l), pop(k), pp1, pp2),
             rest \in Parallel_Sums(k + 1, no_res, pp1, pp2) }

Parallel_Answer(sum) ==
    IF sum = Crashed THEN Answer("crash", NoDist) ELSE Answer("distance", Halves(sum))

(* the leaf test of Find_Cluster_Distance: the numbers and the sorted names *)
Different_Leaves(rn1, rn2) ==
    \/ rn1.n_l # rn2.n_l
    \/ \E i \in 1..rn1.n_l : rn1.node_strings[i] # rn2.node_strings[i]

(* the answers on networks that are not compared.  SoftRFDist_print.c exits; *)
(* SoftRFDist_parallel.c returns from Preprocess_Network with the network    *)
(* unset, and from Find_Cluster_Distance without a value                     *)
Any_Distance(n_l) == { Answer("distance", Halves(h)) : h \in 0..(2 ^ n_l) }

Refused(prog, rn1, rn2) ==
    IF rn1.x < 0 \/ rn2.x < 0
    THEN (IF prog = "print" THEN { Answer("bad network", NoDist) }
          ELSE { Answer("crash", NoDist) } \cup Any_Distance(rn1.n_l))
    ELSE IF Different_Leaves(rn1, rn2)
    THEN (IF prog = "print" THEN { Answer("different leaves", NoDist) }
          ELSE Any_Distance(rn1.n_l))
    ELSE {}

(* Find_Cluster_Distance after the preprocessing of both networks *)
Distance_Answers(prog, pp1, pp2) ==
    IF prog = "print" THEN Print_Run(First_Subset(1), No_Bits(pp1.net.n_l), pp1, pp2)
    ELSE { Parallel_Answer(sum) :
             sum \in Parallel_Sums(1, (2 ^ pp1.net.n_l), pp1, pp2) }

Find_Cluster_Distance(prog, rn1, rn2, tie) ==
    IF Refused(prog, rn1, rn2) # {} THEN Refused(prog, rn1, rn2)
    ELSE Distance_Answers(prog, Preprocess(rn1, tie, prog), Preprocess(rn2, tie, prog))

(* main of an SRFD program on two files with different names *)
SRFD(prog, file1, file2, tie) ==
    Find_Cluster_Distance(prog, ReadSortedNetwork(file1), ReadSortedNetwork(file2), tie)

-----------------------------------------------------------------------------
(* The three programs as one state machine: prog is the program that runs    *)

VARIABLES
    prog,         \* "ccp", "parallel" or "print"
    ntk_file,     \* the (first) network file: a sequence of edges <<parent, child>>
    ntk_file2,    \* SRFD: the second network file
    same_name,    \* SRFD: the two file names are equal
    leaf_file,    \* CCP: the leaf file, a sequence of names
    tie_order,    \* the order qsort gives to elements that compare equal
    pc,           \* "main", "cc" (inside Cluster_Containment), "subsets" or "done"
    ntk,          \* CCP: the static arrays of the network after preprocessing
    cc_frame,     \* CCP: the arguments of the current invocation of Cluster_Containment
    pending,      \* CCP: the second copies of the splits that wait for their first copy
    res,          \* CCP: the value returned by the last finished invocation
    witness,      \* CCP: the name printed after "soft cluster of node:", -1 if none
    no_break,     \* CCP: the counter *no_break
    cc_calls,     \* CCP: the number of invocations of Cluster_Containment so far
    nets,         \* SRFD: the two preprocessed networks
    subset,       \* print: the loop state k, j and input_leaves of Subset_CCP
    bits,         \* print: res1, res2 and the index *no_res
    thread_k,     \* parallel: the number of iterations each thread has finished
    no_diff,      \* parallel: the private copy of no_diff of each thread
    dist,         \* SRFD: the printed distance, units and tenths
    output        \* what main reports

ccp_vars == << leaf_file, ntk, cc_frame, pending, res, witness, no_break, cc_calls >>
srfd_vars == << ntk_file2, same_name, nets, subset, bits, thread_k, no_diff, dist >>
input_vars == << prog, ntk_file, ntk_file2, same_name, leaf_file, tie_order >>
vars == << prog, ntk_file, ntk_file2, same_name, leaf_file, tie_order, pc, ntk, cc_frame,
           pending, res, witness, no_break, cc_calls, nets, subset, bits, thread_k,
           no_diff, dist, output >>

NoNetwork == [ prog |-> "ccp", no_nodes |-> 0 ]
NoFrame == [ pos |-> 0 ]
Threads == 0..(NumThreads - 1)

TieOrders == { "asc", "desc" }

(* qsort has an order to choose only where a network has two reticulations *)
QsortOrders(files) ==
    IF \E f \in files : Cardinality(FileReticulations(f)) >= 2 THEN TieOrders ELSE { "asc" }

(* the pairs of files of the SRFD runs: two networks on the same leaves, at *)
(* least MinLeaves of them; a generated network is compared with itself and, *)
(* if it has a reticulation, with the others                                *)
DistanceFiles ==
    { f \in GeneratedFiles : Cardinality(LeafNames(f)) >= MinLeaves } \cup NamedDistanceFiles

(* pairs of networks on the same leaves, and pairs of a named network and a *)
(* network with other leaves                                                *)
DistancePairs ==
    { q \in DistanceFiles \X DistanceFiles :
        \/ /\ LeafNames(q[1]) = LeafNames(q[2])
           /\ \/ q[1] = q[2]
              \/ FileReticulations(q[1]) # {}
              \/ q[1] \in NamedDistanceFiles
        \/ /\ LeafNames(q[1]) # LeafNames(q[2])
           /\ q[1] \in NamedDistanceFiles }

InitCCP ==
    /\ prog = "ccp"
    /\ ntk_file \in NetworkFiles \cup MalformedFiles \cup { CyclicFile }
    /\ leaf_file \in LeafFiles(ntk_file)
    /\ tie_order \in QsortOrders({ ntk_file })
    /\ ntk_file2 = << >>
    /\ same_name = FALSE

InitSRFD ==
    /\ prog \in { "parallel", "print" }
    /\ \E q \in DistancePairs : ntk_file = q[1] /\ ntk_file2 = q[2]
    /\ same_name \in (IF ntk_file = ntk_file2 THEN BOOLEAN ELSE { FALSE })
    /\ tie_order \in (IF prog = "print" THEN { "asc" }
                      ELSE QsortOrders({ ntk_file, ntk_file2 }))
    /\ leaf_file = << >>

Init ==
    /\ InitCCP \/ InitSRFD
    /\ pc = "main"
    /\ ntk = NoNetwork
    /\ cc_frame = NoFrame
    /\ pending = <<>>
    /\ res = -1
    /\ witness = -1
    /\ no_break = 0
    /\ cc_calls = 0
    /\ nets = << >>
    /\ subset = First_Subset(1)
    /\ bits = No_Bits(0)
    /\ thread_k = [ t \in Threads |-> 0 ]
    /\ no_diff = [ t \in Threads |-> 0 ]
    /\ dist = NoDist
    /\ output = "none"

(* a test of main that lets the whole leaf set through; C6 fails under it *)
Trivial_Singleton_Only(no_leaves, n_l) == no_leaves = 1

(* the test of main for the inputs that get the trivial answer *)
Trivial_Input(no_leaves, n_l) == no_leaves = 1 \/ n_l = no_leaves

(* main of ClusterContainment.c, from the reading of the files to the call of *)
(* Cluster_Containment.  At "levels" the program is in the third loop of     *)
(* Sort_Rets_By_Level, whose passes change nothing: it stays there.          *)
Main ==
    /\ pc = "main" /\ prog = "ccp"
    /\ \E rn \in { ReadNetwork(ntk_file) } :
       \E in_cluster \in { InCluster(rn, leaf_file) } :
       \E input_leaves \in { InputLeaves(in_cluster) } :
          IF Bad_Topology(rn.x)
          THEN /\ pc' = "done" /\ res' = 10 /\ output' = "bad network"
               /\ UNCHANGED << ntk, cc_frame >>
          ELSE IF Unknown_Leaf(Len(input_leaves), Len(leaf_file))
          THEN /\ pc' = "done" /\ res' = 10 /\ output' = "bad leaf"
               /\ UNCHANGED << ntk, cc_frame >>
          ELSE IF Trivial_Input(Len(leaf_file), rn.n_l)
          THEN /\ pc' = "done" /\ res' = 0 /\ output' = "trivial"
               /\ UNCHANGED << ntk, cc_frame >>
          ELSE IF Never_Sorted(rn)
          THEN /\ pc' = "levels"
               /\ UNCHANGED << res, output, ntk, cc_frame >>
          ELSE \E pp \in { Preprocess(rn, tie_order, "ccp") } :
               /\ pc' = "cc" /\ res' = res /\ output' = output
               /\ ntk' = pp.net
               /\ cc_frame' = [ pp.frame EXCEPT !.input_leaves = input_leaves,
                                                !.in_cluster = in_cluster ]
    /\ UNCHANGED << pending, witness, no_break, cc_calls >>
    /\ UNCHANGED input_vars
    /\ UNCHANGED << nets, subset, bits, thread_k, no_diff, dist >>

(* what follows one invocation of Cluster_Containment with outcome o: a tail  *)
(* call, a split (the second copy waits while the first runs), or a return;   *)
(* a return other than 50 resumes the innermost waiting second copy, and     *)
(* main prints "not a cluster!" when the outermost invocation returns it     *)
Continue(o) ==
    /\ cc_calls' = cc_calls + 1
    /\ no_break' = no_break + o.brk
    /\ UNCHANGED ntk
    /\ IF o.kind = "call"
       THEN /\ cc_frame' = o.first
            /\ UNCHANGED << pc, pending, res, witness, output >>
       ELSE IF o.kind = "split"
       THEN /\ cc_frame' = IF o.run_1st = 1 THEN o.first ELSE o.second
            /\ pending' = IF o.run_1st = 1 /\ o.run_2nd = 1 THEN <<o.second>> \o pending
                          ELSE pending
            /\ UNCHANGED << pc, res, witness, output >>
       ELSE IF o.code = 50
       THEN /\ pc' = "done" /\ res' = 50 /\ output' = "cluster"
            /\ witness' = ntk.node_strings[o.witness + 1]
            /\ cc_frame' = o.first
            /\ UNCHANGED pending
       ELSE IF pending # <<>>
       THEN /\ cc_frame' = Head(pending)
            /\ pending' = Tail(pending)
            /\ res' = o.code
            /\ UNCHANGED << pc, witness, output >>
       ELSE /\ pc' = "done" /\ res' = o.code /\ output' = "not a cluster"
            /\ cc_frame' = o.first
            /\ UNCHANGED << pending, witness >>

(* the invocation ends the program at an access outside an array *)
Crash(o) ==
    /\ o.ub > 0
    /\ pc' = "done" /\ output' = "crash"
    /\ cc_calls' = cc_calls + 1
    /\ UNCHANGED << ntk, cc_frame, pending, res, witness, no_break >>

Invoke(o) ==
    /\ Continue(o) \/ Crash(o)
    /\ UNCHANGED input_vars
    /\ UNCHANGED << nets, subset, bits, thread_k, no_diff, dist >>

InCC == pc = "cc"
AtEnd == cc_frame.pos > Len(cc_frame.nw.cps)
AtEmpty == ~AtEnd /\ cc_frame.nw.cps[cc_frame.pos].tree_com = NullTree
AtStable ==
    /\ ~AtEnd /\ ~AtEmpty
    /\ Is_Stable(cc_frame.nw.cps[cc_frame.pos].tree_com, ntk.node_type,
                 cc_frame.inner_flag, cc_frame.lf_below) = 1

(* Cluster_Containment on the NULL component: return 0 *)
CCEnd == InCC /\ AtEnd /\ Invoke(Cluster_Containment(cc_frame, ntk))

(* Cluster_Containment on a component that has become empty *)
CCEmpty == InCC /\ AtEmpty /\ Invoke(Cluster_Containment(cc_frame, ntk))

(* Cluster_Containment on a stable component: the resolver *)
CCStable == InCC /\ AtStable /\ Invoke(Cluster_Containment(cc_frame, ntk))

(* Cluster_Containment on an unstable component: the splitter *)
CCUnstable ==
    /\ InCC /\ ~AtEnd /\ ~AtEmpty /\ ~AtStable
    /\ Invoke(Cluster_Containment(cc_frame, ntk))

(* main of an SRFD program and Find_Cluster_Distance up to its loop *)
End_Distance(a) ==
    /\ pc' = "done" /\ output' = a.output /\ dist' = a.dist
    /\ UNCHANGED << nets, subset, bits >>

Compare(rn1, rn2) ==
    IF Refused(prog, rn1, rn2) # {}
    THEN \E a \in Refused(prog, rn1, rn2) : End_Distance(a)
    ELSE /\ pc' = "subsets"
         /\ nets' = << Preprocess(rn1, tie_order, prog), Preprocess(rn2, tie_order, prog) >>
         /\ subset' = First_Subset(1)
         /\ bits' = No_Bits(rn1.n_l)
         /\ UNCHANGED << output, dist >>

DistanceMain ==
    /\ pc = "main" /\ prog # "ccp"
    /\ IF same_name THEN End_Distance(Answer("same files", Halves(0)))
       ELSE Compare(ReadSortedNetwork(ntk_file), ReadSortedNetwork(ntk_file2))
    /\ UNCHANGED << thread_k, no_diff >>
    /\ UNCHANGED input_vars
    /\ UNCHANGED << ntk, cc_frame, pending, res, witness, no_break, cc_calls >>

(* SoftRFDist_print.c: one call of Is_Cluster by Subset_CCP and the step to *)
(* the next subset                                                          *)
PrintSubset ==
    /\ pc = "subsets" /\ prog = "print"
    /\ subset.k < nets[1].net.n_l
    /\ \E o \in Is_Cluster_Bits(subset.input_leaves, subset.k, bits.res1, bits.res2,
                                bits.no_res, nets[1], nets[2]) :
          IF o.crashed
          THEN /\ pc' = "done" /\ output' = "crash"
               /\ UNCHANGED << subset, bits >>
          ELSE /\ bits' = o
               /\ subset' = Next_Subset(subset, nets[1].net.n_l)
               /\ UNCHANGED << pc, output >>
    /\ UNCHANGED << nets, thread_k, no_diff, dist >>
    /\ UNCHANGED input_vars
    /\ UNCHANGED << ntk, cc_frame, pending, res, witness, no_break, cc_calls >>

(* SoftRFDist_print.c: the distance after the last subset *)
PrintDistance ==
    /\ pc = "subsets" /\ prog = "print"
    /\ subset.k >= nets[1].net.n_l
    /\ pc' = "done" /\ output' = "distance"
    /\ dist' = Print_Distance(bits.res1, bits.res2)
    /\ UNCHANGED << nets, subset, bits, thread_k, no_diff >>
    /\ UNCHANGED input_vars
    /\ UNCHANGED << ntk, cc_frame, pending, res, witness, no_break, cc_calls >>

(* SoftRFDist_parallel.c: no_res, chunksize and the iteration k (from 1) that *)
(* thread t runs next; the bounds keep chunksize positive                     *)
No_Res == (2 ^ nets[1].net.n_l)
Chunksize == No_Res \div NumThreads
Thread_K(t) == 1 + Static_Iteration(t, thread_k[t], Chunksize, NumThreads)

(* an Is_Cluster that hands the arrays of the network itself to            *)
(* Cluster_Containment: the network holds what the first invocation wrote;  *)
(* C19 fails under it                                                        *)
Network_Uncopied(pp, in_cluster, r) ==
    IF r < 2 THEN pp
    ELSE [ pp EXCEPT !.frame =
             [ Cluster_Containment([ pp.frame EXCEPT !.input_leaves = InputLeaves(in_cluster),
                                                     !.in_cluster = in_cluster ],
                                   pp.net).first
                 EXCEPT !.input_leaves = pp.frame.input_leaves,
                        !.in_cluster = pp.frame.in_cluster,
                        !.pos = pp.frame.pos ] ]

(* the network after a call of Is_Cluster.  Is_Cluster copies inner_flag,    *)
(* lf_below, super_deg and net_edges into local arrays and the components    *)
(* into network1 and trees1 (Make_Current_Network), and Cluster_Containment  *)
(* writes to these and to its own copies only; r_nodes, node_type,           *)
(* node_strings, child_array and parent_array are passed as they are and     *)
(* are only read.  Nothing of the network is written.                        *)
Network_After(pp, in_cluster, r) == pp

(* one iteration of the parallel loop by thread t *)
ParallelIteration(t) ==
    /\ pc = "subsets" /\ prog = "parallel"
    /\ Thread_K(t) < No_Res - 1
    /\ \E v \in Is_Cluster(int_to_bin_digit(Thread_K(t), nets[1].net.n_l),
                           pop(Thread_K(t)), nets[1], nets[2]) :
          IF v = Crashed
          THEN /\ pc' = "done" /\ output' = "crash"
               /\ UNCHANGED << thread_k, no_diff >>
          ELSE /\ no_diff' = [ no_diff EXCEPT ![t] = @ + v ]
               /\ thread_k' = [ thread_k EXCEPT ![t] = @ + 1 ]
               /\ UNCHANGED << pc, output >>
    /\ nets' = [ i \in 1..Len(nets) |->
                  Network_After(nets[i], int_to_bin_digit(Thread_K(t), nets[1].net.n_l),
                                pop(Thread_K(t))) ]
    /\ UNCHANGED << subset, bits, dist >>
    /\ UNCHANGED input_vars
    /\ UNCHANGED << ntk, cc_frame, pending, res, witness, no_break, cc_calls >>

(* the reduction of no_diff at the end of the parallel loop and the distance *)
ParallelDistance ==
    /\ pc = "subsets" /\ prog = "parallel"
    /\ \A t \in Threads : Thread_K(t) >= No_Res - 1
    /\ pc' = "done" /\ output' = "distance"
    /\ dist' = Halves(SeqSum([ i \in 1..NumThreads |-> no_diff[i - 1] ]))
    /\ UNCHANGED << nets, subset, bits, thread_k, no_diff >>
    /\ UNCHANGED input_vars
    /\ UNCHANGED << ntk, cc_frame, pending, res, witness, no_break, cc_calls >>

Next ==
    \/ Main \/ CCEnd \/ CCEmpty \/ CCStable \/ CCUnstable
    \/ DistanceMain \/ PrintSubset \/ PrintDistance
    \/ \E t \in Threads : ParallelIteration(t)
    \/ ParallelDistance

Spec == Init /\ [][Next]_vars

-----------------------------------------------------------------------------
(* Soft clusters, from their definition: one incoming edge is kept for every *)
(* reticulation of the network file, and the cluster of a vertex is the set  *)
(* of leaves it reaches along the edges that remain.                         *)


(* the sets of edges that remain, one set for every choice *)
RECURSIVE Displayed(_, _)
Displayed(file, R) ==
    IF R = {} THEN { { e \in FileEdges(file) : e[2] \notin FileReticulations(file) } }
    ELSE LET r == CHOOSE x \in R : TRUE
         IN { E \cup { <<q, r>> } : E \in Displayed(file, R \ {r}), q \in FileParents(file, r) }

RECURSIVE LeavesBelow(_, _, _)
LeavesBelow(file, E, v) ==
    IF v \in LeafNames(file) THEN {v}
    ELSE UNION { LeavesBelow(file, E, e[2]) : e \in { d \in E : d[1] = v } }

IsSoftClusterOf(file, v, B) ==
    \E E \in Displayed(file, FileReticulations(file)) : LeavesBelow(file, E, v) = B

IsSoftCluster(file, B) == \E v \in FileVertices(file) : IsSoftClusterOf(file, v, B)

(* the vertices of a file that are not leaves *)
InternalVertices(file) == FileVertices(file) \ LeafNames(file)

(* the input set B of the run and the number n of leaves of its network *)
InputSet == Range(leaf_file)
NoLeaves == Cardinality(LeafNames(ntk_file))
ValidInput == ntk_file \in NetworkFiles /\ InputSet \subseteq LeafNames(ntk_file)
ProperInput ==
    ValidInput /\ 2 <= Cardinality(InputSet) /\ Cardinality(InputSet) <= NoLeaves - 1
Finished == pc = "done"
CCPDone == prog = "ccp" /\ Finished
DistanceDone == prog # "ccp" /\ Finished

-----------------------------------------------------------------------------
(* The claims                                                                *)

(* C1: soundness of CCP.  When the run on a network N and a set B of leaves  *)
(* with 2 <= |B| <= n-1 ends with code 50, B is a soft cluster of N.         *)
C1_Soundness ==
    (CCPDone /\ ProperInput /\ res = 50) => IsSoftCluster(ntk_file, InputSet)

(* C2: completeness of CCP.  When B with 2 <= |B| <= n-1 is a soft cluster   *)
(* of some vertex of N, the run ends with code 50.                           *)
C2_Completeness ==
    (CCPDone /\ ProperInput /\ IsSoftCluster(ntk_file, InputSet)) => res = 50

(* C3: witness correctness.  When CCP reports success and names a vertex,    *)
(* the input B is a soft cluster of that vertex.                             *)
C3_WitnessCorrect ==
    (CCPDone /\ ProperInput /\ output = "cluster")
        => IsSoftClusterOf(ntk_file, witness, InputSet)

(* C4: tree case.  On a network without reticulations and B with             *)
(* 2 <= |B| <= n-1, CCP reports success exactly when B is the set of leaves  *)
(* below some internal vertex of the tree.                                   *)
C4_TreeCase ==
    (CCPDone /\ ProperInput /\ FileReticulations(ntk_file) = {})
        => (output = "cluster" <=>
              \E v \in InternalVertices(ntk_file) :
                 LeavesBelow(ntk_file, FileEdges(ntk_file), v) = InputSet)

C4_Witness ==
    /\ CCPDone /\ ProperInput /\ FileReticulations(ntk_file) = {}
    /\ output = "cluster" /\ cc_calls > 0
    /\ witness \in InternalVertices(ntk_file)

(* C5: reference scenarios.  On the network of the file header, CCP reports  *)
(* success at node 5 for {leaf2, leaf3}, success at node 4 for {leaf2,       *)
(* leaf3, leaf4}, and no cluster for {leaf1, leaf2} and for {leaf2, leaf4}.  *)
C5_Reference ==
    (CCPDone /\ ntk_file = HeaderFile) =>
        /\ InputSet = {102, 103} => (output = "cluster" /\ witness = 5)
        /\ InputSet = {102, 103, 104} => (output = "cluster" /\ witness = 4)
        /\ InputSet = {101, 102} => output = "not a cluster"
        /\ InputSet = {102, 104} => output = "not a cluster"

(* C5 as the code has it: {leaf2, leaf3, leaf4} is reported at node 3, the   *)
(* parent of node 4 and of the reticulation 6, of which it is a soft cluster *)
(* too; the other three scenarios are as stated.                             *)
C5_ReferenceAtNode3 ==
    (CCPDone /\ ntk_file = HeaderFile) =>
        /\ InputSet = {102, 103} => (output = "cluster" /\ witness = 5)
        /\ InputSet = {102, 103, 104}
              => /\ output = "cluster" /\ witness = 3
                 /\ IsSoftClusterOf(HeaderFile, 3, InputSet)
                 /\ IsSoftClusterOf(HeaderFile, 4, InputSet)
        /\ InputSet = {101, 102} => output = "not a cluster"
        /\ InputSet = {102, 104} => output = "not a cluster"

C5_Witness ==
    /\ CCPDone /\ ntk_file = HeaderFile /\ InputSet = {102, 103, 104}
    /\ output = "cluster" /\ witness = 3 /\ cc_calls > 0

(* C6: trivial inputs.  With |B| = 1 or |B| = n the CCP program reports the  *)
(* trivial answer without a call of Cluster_Containment, and a call of       *)
(* Is_Cluster on a subset of size 1 adds no difference: SoftRFDist_print.c   *)
(* sets its bit in res1 and in res2, SoftRFDist_parallel.c adds 0 to no_diff. *)
C6_TrivialCCP ==
    (CCPDone /\ ValidInput /\ (Len(leaf_file) = 1 \/ Len(leaf_file) = NoLeaves))
        => (output = "trivial" /\ cc_calls = 0)

C6_SingletonPrint ==
    (prog = "print" /\ pc = "subsets" /\ subset.k = 1 /\ pc' = "subsets")
        => /\ bits'.no_res = bits.no_res + 1
           /\ BITTEST(bits'.res1, bits.no_res) # 0
           /\ BITTEST(bits'.res2, bits.no_res) # 0

C6_SingletonParallel ==
    \A t \in Threads :
        (/\ prog = "parallel" /\ pc = "subsets"
         /\ thread_k'[t] = thread_k[t] + 1
         /\ pop(Thread_K(t)) = 1)
            => no_diff' = no_diff

C6_TrivialInputs ==
    /\ []C6_TrivialCCP
    /\ [][C6_SingletonPrint /\ C6_SingletonParallel]_vars

C6_Witness ==
    /\ CCPDone /\ Len(leaf_file) = NoLeaves /\ NoLeaves > 1
    /\ output = "trivial" /\ cc_calls = 0

(* C7: empty input.  When no leaf name is given, the CCP program gives the   *)
(* trivial answer and never calls Cluster_Containment.                       *)
C7_EmptyInput ==
    (CCPDone /\ leaf_file = << >>) => (output = "trivial" /\ cc_calls = 0)

(* C8: determinism of CCP.  The answer and the vertex named for (N, B) are   *)
(* the same for either order that qsort gives to reticulations that compare  *)
(* equal.                                                                    *)
C8_Deterministic ==
    (CCPDone /\ ProperInput) =>
        \A t \in TieOrders :
            /\ CCP(ntk_file, leaf_file, t).output = output
            /\ CCP(ntk_file, leaf_file, t).witness = witness

(* C9: SRFD(N, N) = 0.  The distance reported for a network and a copy of   *)
(* it is 0.0, under the same file name and under two file names.             *)
C9_SelfDistance ==
    (DistanceDone /\ ntk_file = ntk_file2)
        => (output \in { "distance", "same files" } /\ dist = Halves(0))

(* C10: symmetry of SRFD.  For two networks on the same leaves, the answer   *)
(* for (N1, N2) is the answer for (N2, N1).                                  *)
C10_Symmetric ==
    (DistanceDone /\ ntk_file # ntk_file2 /\ LeafNames(ntk_file) = LeafNames(ntk_file2)) =>
        \A a \in SRFD(prog, ntk_file2, ntk_file, tie_order) :
            a.output = output /\ a.dist = dist

(* C11: value of SRFD.  The distance reported is half the number of sets B  *)
(* of leaves, 0 < |B| < n, that Cluster_Containment accepts (code 50) on     *)
(* exactly one of the two networks; a set that both accept or both refuse,   *)
(* with code 0 or 10, adds nothing.  A set of one leaf is accepted on both.  *)
Leaf_Indices == 0..(nets[1].net.n_l - 1)
Indicator(B) == [ i \in Leaf_Indices |-> IF i \in B THEN 1 ELSE 0 ]
Codes_Of(pp, B) == Cluster_Codes(pp, Indicator(B), InputLeaves(Indicator(B)))
Examined_Sets ==
    { B \in SUBSET Leaf_Indices : 2 <= Cardinality(B) /\ Cardinality(B) < nets[1].net.n_l }
Defined_Runs ==
    \A B \in Examined_Sets :
        Cardinality(Codes_Of(nets[1], B)) = 1 /\ Cardinality(Codes_Of(nets[2], B)) = 1
One_Sided(B) == (Codes_Of(nets[1], B) = { 50 }) # (Codes_Of(nets[2], B) = { 50 })
Compared == DistanceDone /\ output = "distance" /\ nets # << >>

RECURSIVE Ksub_Lists(_, _, _, _)
Ksub_Lists(n, k, a, left) ==
    IF left = 0 THEN << >>
    ELSE << a >> \o Ksub_Lists(n, k, ksub_next(n, k, a), left - 1)

Subsets_Of_Size(n, k) == Ksub_Lists(n, k, First_Subset(k).input_leaves, nChoosek(n, k))

Increasing_Lists(n, k) ==
    { a \in [ 1..k -> 0..(n - 1) ] : \A i \in 1..(k - 1) : a[i] < a[i + 1] }

Sets_Of_Size(n, k) == { B \in SUBSET (0..(n - 1)) : Cardinality(B) = k }

Covers_Size(n, k) ==
    /\ Len(Subsets_Of_Size(n, k)) = Cardinality(Sets_Of_Size(n, k))
    /\ Range(Subsets_Of_Size(n, k)) = Increasing_Lists(n, k)
    /\ { Range(a) : a \in Range(Subsets_Of_Size(n, k)) } = Sets_Of_Size(n, k)

In_Subsets == pc = "subsets" /\ nets # << >>

Print_Walk ==
    (In_Subsets /\ prog = "print") =>
        /\ \A k \in 1..(nets[1].net.n_l - 1) : Covers_Size(nets[1].net.n_l, k)
        /\ subset.k < nets[1].net.n_l =>
              /\ subset.j < nChoosek(nets[1].net.n_l, subset.k)
              /\ subset.input_leaves = Subsets_Of_Size(nets[1].net.n_l, subset.k)[subset.j + 1]
              /\ bits.no_res = subset.j
                     + SeqSum([ k \in 1..(subset.k - 1) |-> nChoosek(nets[1].net.n_l, k) ])
        /\ subset.k >= nets[1].net.n_l => bits.no_res = (2 ^ nets[1].net.n_l) - 2

Bitmap(k) == int_to_bin_digit(k, nets[1].net.n_l)
Bitmap_Set(k) == { i \in Leaf_Indices : Bitmap(k)[i] = 1 }
Iterations_Of(t) == { 1 + Static_Iteration(t, m, Chunksize, NumThreads) : m \in 0..(No_Res - 1) }

Parallel_Walk ==
    (In_Subsets /\ prog = "parallel") =>
        /\ \A k1, k2 \in 1..(No_Res - 2) : k1 # k2 => Bitmap(k1) # Bitmap(k2)
        /\ \A k \in 1..(No_Res - 2) :
               /\ Bitmap_Set(k) # {} /\ Bitmap_Set(k) # Leaf_Indices
               /\ Cardinality(Bitmap_Set(k)) = pop(k)
               /\ Cardinality({ t \in Threads : k \in Iterations_Of(t) }) = 1
        /\ \A t \in Threads :
               Thread_K(t) \in Iterations_Of(t)

C12_SubsetCoverage == Print_Walk /\ Parallel_Walk

C12_Witness ==
    /\ In_Subsets /\ prog = "print" /\ nets[1].net.n_l >= 4
    /\ subset.k = 2 /\ subset.j = nChoosek(nets[1].net.n_l, 2) - 1
    /\ subset.input_leaves = << nets[1].net.n_l - 2, nets[1].net.n_l - 1 >>

(* C13: order of enumeration in SoftRFDist_print.c.  For each k in 1..n-1   *)
(* the lists that the successive calls of ksub_next give appear in          *)
(* lexicographic order.                                                     *)
Lex_Less(a, b) ==
    \E i \in 1..Len(a) : a[i] < b[i] /\ \A m \in 1..(i - 1) : a[m] = b[m]

Next_Of_Size ==
    /\ prog = "print" /\ pc = "subsets" /\ pc' = "subsets"
    /\ subset'.k = subset.k /\ subset'.j = subset.j + 1

C13_Lexicographic ==
    [][Next_Of_Size => Lex_Less(subset.input_leaves, subset'.input_leaves)]_vars

(* C13 as the code has it: the lists appear in colexicographic order, that  *)
(* is, two lists compare by their last entries that differ (0 1, 0 2, 1 2,   *)
(* 0 3, 1 3, 2 3 for n = 4, k = 2).                                          *)
Colex_Less(a, b) ==
    \E i \in 1..Len(a) : a[i] < b[i] /\ \A m \in (i + 1)..Len(a) : a[m] = b[m]

C13_Colexicographic ==
    [][Next_Of_Size => Colex_Less(subset.input_leaves, subset'.input_leaves)]_vars

C13_Witness ==
    /\ prog = "print" /\ pc = "subsets" /\ nets # << >>
    /\ subset.k = 2 /\ subset.j = 3 /\ subset.input_leaves = << 0, 3 >>
    /\ Subsets_Of_Size(nets[1].net.n_l, 2)[3] = << 1, 2 >>


(* the degrees of a vertex in the edge list of the network file *)
File_Indegree(v) == Cardinality({ k \in 1..Len(ntk_file) : ntk_file[k][2] = v })
File_Outdegree(v) == Cardinality({ k \in 1..Len(ntk_file) : ntk_file[k][1] = v })
File_Roots ==
    { v \in FileVertices(ntk_file) : File_Indegree(v) = 0 /\ File_Outdegree(v) > 1 }
File_Both_Degrees ==
    { v \in FileVertices(ntk_file) : File_Indegree(v) > 1 /\ File_Outdegree(v) > 1 }

(* C14: an edge list with two or more vertices of indegree 0 and outdegree  *)
(* above 1, or with a vertex of indegree above 1 and outdegree above 1, is  *)
(* rejected: the program ends with code 10 and the bad-network message,     *)
(* having built no network and no component and made no call of             *)
(* Cluster_Containment.                                                     *)
C14_BadTopology ==
    (CCPDone /\ (Cardinality(File_Roots) > 1 \/ File_Both_Degrees # {})) =>
        /\ output = "bad network" /\ res = 10
        /\ ntk = NoNetwork /\ cc_frame = NoFrame /\ cc_calls = 0

C14_Witness ==
    /\ CCPDone /\ File_Both_Degrees # {} /\ Cardinality(File_Roots) = 1
    /\ output = "bad network" /\ res = 10 /\ ntk = NoNetwork

(* the vertices of the edge list whose degrees are those of a root, a tree  *)
(* vertex, a leaf or a reticulation                                         *)
File_Classified ==
    { v \in FileVertices(ntk_file) :
        \/ File_Indegree(v) = 0 /\ File_Outdegree(v) > 1
        \/ File_Indegree(v) = 1
        \/ File_Indegree(v) > 1 /\ File_Outdegree(v) = 1 }

(* C15: an edge list is rejected unless it has exactly one vertex with the  *)
(* degrees of a root and every vertex has the degrees of a root (0, > 1), a *)
(* tree vertex (1, >= 1), a leaf (1, 0) or a reticulation (> 1, 1).         *)
C15_StrictClassification ==
    (CCPDone /\ (Cardinality(File_Roots) # 1 \/ File_Classified # FileVertices(ntk_file))) =>
        (output = "bad network" /\ res = 10)

(* the names of the leaf file that are not the name of a leaf of the        *)
(* network: a vertex with one parent and no child                           *)
Unknown_Names ==
    { x \in InputSet : ~(File_Indegree(x) = 1 /\ File_Outdegree(x) = 0) }

(* C16: when the network passes the topology test and some name of the leaf *)
(* file is not the name of a leaf of the network (it is absent from the     *)
(* network, or names a vertex with children), the program reports the       *)
(* error and ends with code 10 without a call of Cluster_Containment.       *)
C16_UnknownLeaf ==
    (CCPDone /\ Cardinality(File_Roots) <= 1 /\ File_Both_Degrees = {} /\ Unknown_Names # {}) =>
        /\ output = "bad leaf" /\ res = 10
        /\ ntk = NoNetwork /\ cc_frame = NoFrame /\ cc_calls = 0

C16_Witness ==
    /\ CCPDone /\ ntk_file = HeaderFile /\ output = "bad leaf" /\ res = 10 /\ cc_calls = 0
    /\ \E x \in InputSet : x \notin FileVertices(ntk_file)
    /\ \E x \in InputSet : File_Outdegree(x) > 0
    /\ \E x \in InputSet : x \in LeafNames(ntk_file)

(* C17: when the two networks of an SRFD program differ in the number of    *)
(* leaves or in a name of their sorted leaf lists, the program stops with   *)
(* the message about the leaves and reports no distance.                    *)
C17_LeafSetMismatch ==
    (DistanceDone /\ ~same_name /\ LeafNames(ntk_file) # LeafNames(ntk_file2)) =>
        (output = "different leaves" /\ dist = NoDist)

(* the vertices below a vertex of the edge list, by at least one edge *)
RECURSIVE File_Below(_, _)
File_Below(S, k) ==
    IF k = 0 THEN S
    ELSE File_Below(S \cup { e[2] : e \in { d \in FileEdges(ntk_file) : d[1] \in S } }, k - 1)

File_Descendants(v) ==
    File_Below({ e[2] : e \in { d \in FileEdges(ntk_file) : d[1] = v } }, Len(ntk_file))

File_Cyclic == \E v \in FileReticulations(ntk_file) : v \in File_Descendants(v)

(* C18: Sort_Rets_By_Level always returns; on an edge list where a          *)
(* reticulation is its own descendant, so that a pass of the level loop     *)
(* places no reticulation while some are left, the program ends with the    *)
(* cyclic-network error.                                                    *)
C18_CyclicDetected ==
    (prog = "ccp" /\ pc # "main" /\ File_Cyclic /\ Len(leaf_file) > 1 /\ Len(leaf_file) < NoLeaves)
        => (Finished /\ output = "cyclic")

RECURSIVE Below_Through_Trees(_, _)
Below_Through_Trees(S, k) ==
    IF k = 0 THEN S
    ELSE Below_Through_Trees(
             S \cup UNION { Range(ntk.child_array[v]) : v \in { u \in S : ntk.node_type[u] = TREE } },
             k - 1)

Frontier_Rets(r) ==
    { v \in Below_Through_Trees(Range(ntk.child_array[r]), ntk.no_nodes) :
        ntk.node_type[v] = RET }

Above_Leaf(r) == \A v \in Range(ntk.child_array[r]) : ntk.node_type[v] = LEAVE

Preprocessed == prog = "ccp" /\ ntk # NoNetwork /\ ntk_file \in NetworkFiles

(* C20: the list r_nodes that Sort_Rets_By_Level makes for a network has    *)
(* every reticulation exactly once; a reticulation that is a leaf of the    *)
(* component of another one stands before it; the reticulations above a     *)
(* leaf come first; and the component list built from it has one component  *)
(* per entry, in the same order, with the component of the root last.       *)
C20_LevelOrder ==
    Preprocessed =>
        /\ Len(ntk.r_nodes) = ntk.n_r
        /\ Range(ntk.r_nodes) = { v \in 0..(ntk.no_nodes - 1) : ntk.node_type[v] = RET }
        /\ \A i, j \in 1..Len(ntk.r_nodes) :
              /\ (i # j) => ntk.r_nodes[i] # ntk.r_nodes[j]
              /\ (ntk.r_nodes[i] \in Frontier_Rets(ntk.r_nodes[j])) => i < j
              /\ (i < j /\ Above_Leaf(ntk.r_nodes[j])) => Above_Leaf(ntk.r_nodes[i])
        /\ Len(cc_frame.nw.cps) = ntk.n_r + 1
        /\ \A i \in 1..Len(ntk.r_nodes) : cc_frame.nw.cps[i].ret_node = ntk.r_nodes[i]
        /\ cc_frame.nw.cps[ntk.n_r + 1].ret_node = ntk.root
        /\ ntk.node_type[ntk.root] = ROOT

C20_Witness ==
    /\ Preprocessed /\ pc = "cc" /\ cc_calls = 0
    /\ \E i, j, k \in 1..Len(ntk.r_nodes) :
          /\ i < j /\ j < k
          /\ Above_Leaf(ntk.r_nodes[i]) /\ ~Above_Leaf(ntk.r_nodes[j])
          /\ ntk.r_nodes[j] \in Frontier_Rets(ntk.r_nodes[k])
          /\ ntk.r_nodes[k] < ntk.r_nodes[j]

(* the codes of the search of ClusterContainment.c on (N, B) when both      *)
(* clones of every split are tried                                          *)
Codes_All_Clones(pp, in_cluster, input_leaves) ==
    RunSRFD([ pp.frame EXCEPT !.input_leaves = input_leaves, !.in_cluster = in_cluster ],
            << >>, [ pp.net EXCEPT !.prog = All_Clones ])

CCP_All_Clones(rn, leave_names, tie) ==
    Codes_All_Clones(Preprocess(rn, tie, "ccp"), InCluster(rn, leave_names),
                     InputLeaves(InCluster(rn, leave_names)))

(* C21: the feasibility test of the splitter does not change the answer:    *)
(* the program ends with code 50 on (N, B) exactly when the search that     *)
(* tries both clones of every split does.                                   *)
C21_PruningKeepsAnswer ==
    (CCPDone /\ ProperInput) =>
        (res = 50 <=> CCP_All_Clones(ReadNetwork(ntk_file), leaf_file, tie_order) = { 50 })

(* the vertices of the tree t that have a child labelled r *)
RECURSIVE Tree_Parents(_, _)
Tree_Parents(t, r) ==
    IF t = NullTree THEN {}
    ELSE (IF \E i \in 1..Len(t.child) : t.child[i].label = r THEN {t.label} ELSE {})
         \cup UNION { Tree_Parents(t.child[i], r) : i \in 1..Len(t.child) }

(* what Replace_Ret_Revised finds in the component of the current invocation *)
Entry_Replaced ==
    Replace_Ret_Revised(cc_frame.nw.cps[cc_frame.pos].tree_com,
        [ inner_flag |-> cc_frame.inner_flag, sleaves |-> <<>>, ambig |-> <<>>,
          optional |-> <<>>, rpl_comp |-> [ i \in 0..(ntk.n_l - 1) |-> -1 ] ],
        ntk.node_type, cc_frame.lf_below, cc_frame.super_deg, TRUE)

Entry_Marked ==
    MarkAndVmax(Entry_Replaced.tree, Entry_Replaced.st.sleaves, Entry_Replaced.st.ambig,
                cc_frame.in_cluster)

(* the invocation is in the stable case past the test for a single stable   *)
(* leaf, with at least one stable leaf                                      *)
Entry_Resolves ==
    /\ InCC /\ AtStable
    /\ Len(Entry_Replaced.st.sleaves) > 0
    /\ ~(Len(Entry_Replaced.st.optional) = 0 /\ Len(Entry_Replaced.st.sleaves) = 1)

Entry_DP ==
    DProgram_Revised(Entry_Marked.tree, Entry_Marked.vmax, 1, cc_frame.input_leaves,
                     ntk.node_type)

(* the invocation takes the branch count_out == no_slf of the stable case *)
CR_Out_Entry ==
    /\ Entry_Resolves
    /\ Entry_DP < 0
    /\ \A i \in 1..Len(Entry_Replaced.st.sleaves) :
          cc_frame.in_cluster[Entry_Replaced.st.sleaves[i]] = 0

(* lf_below when Modify_Cross_Ret1 starts, and the reticulations it handles *)
CR_Out_Leaf_Below ==
    IF ntk.node_type[cc_frame.nw.cps[cc_frame.pos].ret_node] # ROOT
    THEN ReplaceByLeaf(cc_frame.lf_below, ntk.r_nodes,
                       cc_frame.nw.cps[cc_frame.pos].ret_node, Entry_Replaced.st.sleaves[1])
    ELSE cc_frame.lf_below

CR_Out_Rets(b) ==
    { r \in Range(ntk.r_nodes) :
        /\ CR_Out_Leaf_Below[r] >= 0
        /\ Is_In(CR_Out_Leaf_Below[r], Entry_Replaced.st.optional) = 1
        /\ cc_frame.in_cluster[CR_Out_Leaf_Below[r]] = b }

Edges_From_Current(r) ==
    { <<q, r>> : q \in Tree_Parents(cc_frame.nw.cps[cc_frame.pos].tree_com, r) }
        \cap cc_frame.nw.net_edges

Edges_From_Later(r) ==
    { <<q, r>> : q \in UNION { Tree_Parents(cc_frame.nw.cps[i].tree_com, r) :
                                 i \in (cc_frame.pos + 1)..Len(cc_frame.nw.cps) } }
        \cap cc_frame.nw.net_edges

(* the frame that the invocation passes to the next one *)
Entry_Passed == Cluster_Containment(cc_frame, ntk).first

(* C22, as stated: in the branch where every stable leaf of the component   *)
(* is outside B, a reticulation whose leaf is optional loses its edges from *)
(* the later components when the leaf is in B and its edge from the current *)
(* component when the leaf is not in B; B is passed on unchanged.           *)
C22_CROut_Stated ==
    CR_Out_Entry =>
        /\ Entry_Passed.input_leaves = cc_frame.input_leaves
        /\ Entry_Passed.in_cluster = cc_frame.in_cluster
        /\ Entry_Passed.nw.net_edges =
              cc_frame.nw.net_edges
                 \ (UNION { Edges_From_Later(r) : r \in CR_Out_Rets(1) }
                    \cup UNION { Edges_From_Current(r) : r \in CR_Out_Rets(0) })

(* C22: in the branch where every stable leaf of the component is outside   *)
(* B, a reticulation whose leaf is optional loses its edges from the later  *)
(* components, and its leaf, when the leaf is not in B, and its edge from   *)
(* the current component when the leaf is in B; no other edge is deleted    *)
(* and B is passed on unchanged.                                            *)
C22_CROut ==
    CR_Out_Entry =>
        /\ Entry_Passed.input_leaves = cc_frame.input_leaves
        /\ Entry_Passed.in_cluster = cc_frame.in_cluster
        /\ Entry_Passed.pos = cc_frame.pos + 1
        /\ Entry_Passed.nw.net_edges =
              cc_frame.nw.net_edges
                 \ (UNION { Edges_From_Later(r) : r \in CR_Out_Rets(0) }
                    \cup UNION { Edges_From_Current(r) : r \in CR_Out_Rets(1) })
        /\ \A r \in CR_Out_Rets(0) :
              /\ Entry_Passed.lf_below[r] = -2
              /\ \A i \in (cc_frame.pos + 1)..Len(cc_frame.nw.cps) :
                    Tree_Parents(Entry_Passed.nw.cps[i].tree_com, r) = {}
        /\ \A r \in CR_Out_Rets(1) :
              /\ Entry_Passed.lf_below[r] = CR_Out_Leaf_Below[r]
              /\ Tree_Parents(Entry_Passed.nw.cps[cc_frame.pos].tree_com, r) = {}

(* the branch is taken with an optional leaf in B below a reticulation that *)
(* has an edge from the current component and one from a later component,   *)
(* and the invocation deletes the former                                    *)
C22_Witness ==
    /\ CR_Out_Entry
    /\ \E r \in CR_Out_Rets(1) :
          /\ Edges_From_Current(r) # {} /\ Edges_From_Later(r) # {}
          /\ Edges_From_Current(r) \cap Entry_Passed.nw.net_edges = {}
          /\ Edges_From_Later(r) \subseteq Entry_Passed.nw.net_edges

(* the leaf labels at and below the vertex t of a substituted tree *)
RECURSIVE Leaves_Below(_)
Leaves_Below(t) ==
    IF t = NullTree THEN {}
    ELSE IF Len(t.child) = 0
         THEN (IF t.label >= 0 /\ ntk.node_type[t.label] = LEAVE THEN {t.label} ELSE {})
    ELSE UNION { Leaves_Below(t.child[i]) : i \in 1..Len(t.child) }

(* the leaves below the vertex with label v in the substituted tree of the *)
(* current invocation                                                      *)
Entry_Leaves_Below(v) == Leaves_Below(Search_Revised(Entry_Marked.tree, v))

Entry_B == Range(cc_frame.input_leaves)

(* the number of childless vertices of t with the label x *)
RECURSIVE Leaf_Count(_, _)
Leaf_Count(t, x) ==
    IF t = NullTree THEN 0
    ELSE IF Len(t.child) = 0 THEN (IF t.label = x THEN 1 ELSE 0)
    ELSE SeqSum([ i \in 1..Len(t.child) |-> Leaf_Count(t.child[i], x) ])

(* the leaves that stand at more than one place of the substituted tree *)
Entry_Repeated ==
    { x \in Leaves_Below(Entry_Marked.tree) : Leaf_Count(Entry_Marked.tree, x) > 1 }

(* the dynamic programming of the current invocation returns its j-th row *)
Entry_DP_Row(j) ==
    /\ j \in 1..Len(Entry_Marked.vmax)
    /\ Entry_DP = Entry_Marked.vmax[j]
    /\ \A i \in 1..(j - 1) : Entry_Marked.vmax[i] # Entry_Marked.vmax[j]

(* C23, as stated: the vertex returned by DProgram_Revised is the first     *)
(* vertex of Vmax whose leaves in the substituted tree are exactly B, and   *)
(* -1 is returned when Vmax has no such vertex (checked for B of 2 to n-1   *)
(* leaves).                                                                 *)
C23_DP_Exact ==
    (Entry_Resolves /\ ProperInput) =>
        /\ \A j \in 1..Len(Entry_Marked.vmax) :
              Entry_DP_Row(j) =>
                  /\ Entry_Leaves_Below(Entry_Marked.vmax[j]) = Entry_B
                  /\ \A i \in 1..(j - 1) :
                        Entry_Leaves_Below(Entry_Marked.vmax[i]) # Entry_B
        /\ (Entry_DP < 0) =>
              \A j \in 1..Len(Entry_Marked.vmax) :
                  Entry_Leaves_Below(Entry_Marked.vmax[j]) # Entry_B
        /\ Entry_DP < 0 \/ \E j \in 1..Len(Entry_Marked.vmax) : Entry_DP_Row(j)

(* C23: the vertex returned by DProgram_Revised is the first vertex of Vmax *)
(* that has every leaf of B below it in the substituted tree; a leaf below  *)
(* it that is outside B is an optional leaf or stands at more than one      *)
(* place of the tree; -1 is returned when no vertex of Vmax has every leaf  *)
(* of B below it.                                                           *)
C23_DP_Decision ==
    Entry_Resolves =>
        /\ \A j \in 1..Len(Entry_Marked.vmax) :
              Entry_DP_Row(j) =>
                  /\ Entry_B \subseteq Entry_Leaves_Below(Entry_Marked.vmax[j])
                  /\ Entry_Leaves_Below(Entry_Marked.vmax[j]) \ Entry_B
                        \subseteq Range(Entry_Replaced.st.optional) \cup Entry_Repeated
                  /\ \A i \in 1..(j - 1) :
                        ~(Entry_B \subseteq Entry_Leaves_Below(Entry_Marked.vmax[i]))
        /\ (Entry_DP < 0) =>
              \A j \in 1..Len(Entry_Marked.vmax) :
                  ~(Entry_B \subseteq Entry_Leaves_Below(Entry_Marked.vmax[j]))
        /\ Entry_DP < 0 \/ \E j \in 1..Len(Entry_Marked.vmax) : Entry_DP_Row(j)

(* the dynamic programming returns a vertex that has a leaf outside B below *)
(* it, for B of 2 to n-1 leaves                                             *)
C23_Witness ==
    /\ Entry_Resolves /\ ProperInput /\ Entry_DP >= 0
    /\ Entry_B \subseteq Entry_Leaves_Below(Entry_DP)
    /\ Entry_Leaves_Below(Entry_DP) # Entry_B

(* the trees t and u have the same shape and the same label at every vertex *)
RECURSIVE Same_Labels(_, _)
Same_Labels(t, u) ==
    IF t = NullTree \/ u = NullTree THEN t = u
    ELSE /\ t.label = u.label
         /\ Len(t.child) = Len(u.child)
         /\ \A i \in 1..Len(t.child) : Same_Labels(t.child[i], u.child[i])

(* the tree t without the childless vertices that carry the label r *)
RECURSIVE Without_Leaf(_, _)
Without_Leaf(t, r) ==
    IF t = NullTree THEN t
    ELSE LET kept == SelectSeq(t.child, LAMBDA c : ~(Len(c.child) = 0 /\ c.label = r))
         IN Node(t.label, t.flag, [ i \in 1..Len(kept) |-> Without_Leaf(kept[i], r) ])

(* the component tree of the current invocation before Replace_Ret_Revised, *)
(* and the same tree in the frame that the invocation leaves                *)
Entry_Tree == cc_frame.nw.cps[cc_frame.pos].tree_com

Entry_Tree_After == Entry_Passed.nw.cps[cc_frame.pos].tree_com

(* the invocation is in the stable case and ends without a fault *)
Entry_Stable == InCC /\ AtStable /\ Cluster_Containment(cc_frame, ntk).ub = 0

(* C24: on every path through the stable case the component tree that the  *)
(* invocation leaves has the labels it had before Replace_Ret_Revised, up  *)
(* to the childless reticulations that Modify_Cross_Ret takes out of it:   *)
(* no reticulation keeps the label of its leaf.                            *)
C24_RebuildRoundTrip ==
    Entry_Stable =>
        \/ Same_Labels(Entry_Tree_After, Entry_Tree)
        \/ \E r \in Range(ntk.r_nodes) :
              /\ Tree_Parents(Entry_Tree, r) # {}
              /\ Same_Labels(Entry_Tree_After, Without_Leaf(Entry_Tree, r))

(* the number of component trees of the frame f, from position from on, *)
(* that have the reticulation r as a childless vertex                    *)
Trees_With(f, from, r) ==
    Cardinality({ j \in from..Len(f.nw.cps) : Is_In_Comp(f.nw.cps[j].tree_com, r) = 1 })

(* the frames of the invocations that are still to be made: the current one *)
(* and the waiting second clones                                            *)
Branch_Frames == { cc_frame } \cup Range(pending)

(* C25, as stated: at every entry to Cluster_Containment, in the current    *)
(* frame and in every waiting clone, super_deg of a reticulation is the     *)
(* number of component trees of that frame that have it as a childless      *)
(* vertex (checked for B of 2 to n-1 leaves).                               *)
C25_SuperDeg_All ==
    (InCC /\ ProperInput) =>
        \A f \in Branch_Frames : \A r \in Range(ntk.r_nodes) :
            f.super_deg[r] = Trees_With(f, 1, r)

(* C25: at every entry to Cluster_Containment, in the current frame and in  *)
(* every waiting clone, a reticulation that is a childless vertex of a      *)
(* component tree still to be processed has as super_deg the number of      *)
(* such trees.                                                              *)
C25_SuperDeg ==
    InCC =>
        \A f \in Branch_Frames : \A r \in Range(ntk.r_nodes) :
            Trees_With(f, f.pos, r) > 0 => f.super_deg[r] = Trees_With(f, f.pos, r)

(* a clone waits, and in the running clone a reticulation that was in two   *)
(* trees when the program started is in one tree still to be processed      *)
C25_Witness ==
    /\ InCC /\ ProperInput /\ pending # << >>
    /\ \E r \in Range(ntk.r_nodes) :
          /\ Trees_With(cc_frame, cc_frame.pos, r) = 1 /\ cc_frame.super_deg[r] = 1
          /\ Trees_With(Preprocess(ReadNetwork(ntk_file), tie_order, "ccp").frame, 1, r) = 2

(* the bitmap and the list of the frame f name the same leaves *)
Views_Agree(f) ==
    \A i \in DOMAIN f.in_cluster :
        /\ f.in_cluster[i] \in { 0, 1 }
        /\ (f.in_cluster[i] = 1) <=> (i \in Range(f.input_leaves))

(* an invocation on an unstable component leaves a clone waiting: the clone *)
(* has the B of the invocation, the running copy a subset of it             *)
Split_Keeps_B ==
    (InCC /\ Len(pending') > Len(pending)) =>
        /\ Head(pending').input_leaves = cc_frame.input_leaves
        /\ Head(pending').in_cluster = cc_frame.in_cluster
        /\ Range(cc_frame'.input_leaves) \subseteq Range(cc_frame.input_leaves)

(* C26: at every entry to Cluster_Containment, in the running frame and in  *)
(* every waiting clone, in_cluster[i] is 1 exactly for the leaves i listed  *)
(* in input_leaves; the second clone of a split gets the B of the           *)
(* invocation that made it.                                                 *)
C26_TwoViews ==
    /\ [](InCC => \A f \in Branch_Frames : Views_Agree(f))
    /\ [][Split_Keeps_B]_vars

(* a clone waits with the uncontracted B while the running copy works on a *)
(* contracted one                                                          *)
C26_Witness ==
    /\ InCC /\ pending # << >>
    /\ Range(cc_frame.input_leaves) # Range(Head(pending).input_leaves)
    /\ Range(cc_frame.input_leaves) \subseteq Range(Head(pending).input_leaves)
    /\ Views_Agree(cc_frame) /\ Views_Agree(Head(pending))

(* the labels of the vertices of the tree t *)
Tree_Labels(t) == { v \in 0..(ntk.no_nodes - 1) : Contains(t, v) }

(* what Find_UnStable finds in the component of the current invocation *)
Entry_Unstable ==
    Find_UnStable(Entry_Tree, cc_frame.input_leaves, ntk.node_type,
                  cc_frame.inner_flag, cc_frame.lf_below)

(* the entries of lf_below that the split may write in its second copy: the *)
(* reticulation of the component, the reticulations with a leaf outside B   *)
(* and those with the leaf that replaces the component                      *)
Second_Copy_Writes ==
    { cc_frame.nw.cps[cc_frame.pos].ret_node } \cup Range(Entry_Unstable.rets_out)
        \cup { x \in Range(ntk.r_nodes) :
                 /\ Entry_Unstable.rets_out # << >>
                 /\ cc_frame.lf_below[x] = cc_frame.lf_below[Entry_Unstable.rets_out[1]] }

(* the frame g is the frame of the current invocation changed only by the  *)
(* commit step of the split for its second copy                            *)
Prepared_At_Split(g) ==
    LET rets == Range(Entry_Unstable.rets_in) \cup Range(Entry_Unstable.rets_out)
    IN /\ g.input_leaves = cc_frame.input_leaves
       /\ g.in_cluster = cc_frame.in_cluster
       /\ g.pos = cc_frame.pos + 1
       /\ g.nw.net_edges \subseteq cc_frame.nw.net_edges
       /\ \A e \in cc_frame.nw.net_edges \ g.nw.net_edges : e[2] \in rets
       /\ \A x \in DOMAIN g.lf_below :
             x \notin Second_Copy_Writes => g.lf_below[x] = cc_frame.lf_below[x]
       /\ \A x \in DOMAIN g.inner_flag :
             x \notin rets => /\ g.inner_flag[x] = cc_frame.inner_flag[x]
                              /\ g.super_deg[x] = cc_frame.super_deg[x]
       /\ Len(g.nw.cps) = Len(cc_frame.nw.cps)
       /\ \A j \in 1..Len(g.nw.cps) :
             /\ g.nw.cps[j].ret_node = cc_frame.nw.cps[j].ret_node
             /\ Tree_Labels(g.nw.cps[j].tree_com)
                   \subseteq Tree_Labels(cc_frame.nw.cps[j].tree_com)
             /\ Tree_Labels(cc_frame.nw.cps[j].tree_com)
                   \ Tree_Labels(g.nw.cps[j].tree_com) \subseteq rets

(* one invocation: the clones that wait are left as they are; a new clone *)
(* is the frame of the invocation with the commit of the split alone; the *)
(* clone that is resumed is explored as it was left                       *)
Clone_Step ==
    InCC =>
        /\ Len(pending') = Len(pending) => pending' = pending
        /\ Len(pending') > Len(pending) =>
              /\ Tail(pending') = pending
              /\ Prepared_At_Split(Head(pending'))
        /\ Len(pending') < Len(pending) =>
              /\ pending' = Tail(pending)
              /\ cc_frame' = Head(pending)

(* C27: the second clone of a split is the state of the splitting           *)
(* invocation changed by the commit step of the split only; nothing done    *)
(* while the first clone is explored alters a waiting clone, and the clone  *)
(* is explored from the state prepared at the split.                        *)
C27_CloneIsolation == [][Clone_Step]_vars

(* a clone waits while the exploration of the first clone, two components  *)
(* further, has deleted edges that the clone still has and has changed     *)
(* lf_below                                                                *)
C27_Witness ==
    /\ InCC /\ pending # << >>
    /\ cc_frame.pos > Head(pending).pos
    /\ Head(pending).nw.net_edges \ cc_frame.nw.net_edges # {}
    /\ cc_frame.lf_below # Head(pending).lf_below

(* the invocation is in the unstable case *)
Entry_Splits == InCC /\ ~AtEnd /\ ~AtEmpty /\ ~AtStable

(* lf_in_comp as Find_UnStable fills it for the current invocation *)
Entry_Lf_In ==
    [ i \in 1..Len(Entry_Unstable.rets_in) |-> cc_frame.lf_below[Entry_Unstable.rets_in[i]] ]

(* C28: when the short-circuit of the splitter fires (no_in_lfb == no1),   *)
(* lf_in_comp has no leaf twice and its leaves are exactly B.              *)
C28_ShortCircuit ==
    (Entry_Splits /\ ProperInput /\ Len(Entry_Lf_In) = Len(cc_frame.input_leaves)) =>
        /\ \A i, j \in 1..Len(Entry_Lf_In) : i # j => Entry_Lf_In[i] # Entry_Lf_In[j]
        /\ Range(Entry_Lf_In) = Entry_B

(* the position at which main makes the first call of Cluster_Containment *)
Entry_Start == Preprocess(ReadNetwork(ntk_file), tie_order, "ccp").frame.pos

(* one invocation passes the tail of its component list to the next, and a *)
(* resumed clone has the tail of the list of the invocation that made it   *)
Strict_Tail ==
    (InCC /\ pc' = "cc") =>
        IF Len(pending') < Len(pending) THEN cc_frame' = Head(pending)
        ELSE /\ cc_frame'.pos = cc_frame.pos + 1
             /\ Len(pending') > Len(pending) => Head(pending').pos = cc_frame.pos + 1

(* C29: every recursive call of Cluster_Containment gets the strict tail   *)
(* of the component list, there are never more nested recursive calls than *)
(* components, and on a valid network with a B of 2 to n-1 of its leaves   *)
(* the search ends with one of the codes 0, 10, 50.                        *)
C29_Termination ==
    /\ [][Strict_Tail]_vars
    /\ [](InCC => /\ cc_frame.pos - Entry_Start <= Len(cc_frame.nw.cps)
                  /\ Len(pending) <= cc_frame.pos - Entry_Start)
    /\ []((CCPDone /\ ProperInput) => (output # "crash" /\ res \in { 0, 10, 50 }))

(* the two copies of the network as the split of the current invocation has *)
(* them when it asks To_Run_Network whether to search them                   *)
Entry_Copies ==
    LET u == Entry_Unstable
        p == cc_frame.nw.cps[cc_frame.pos]
        copy == [ cc_frame EXCEPT !.nw.cps = Make_Current_Network(@) ]
        s1 == SplitRets(<<cc_frame, copy>>, u.rets_in, 1, cc_frame.pos, ntk.node_type, 1, prog)
        s2 == SplitRets(s1, u.rets_out, 1, cc_frame.pos, ntk.node_type, 2, prog)
    IN << [ s2[1] EXCEPT !.lf_below = SplitLfBelow(@, ntk.r_nodes, p.ret_node, u.rets_in,
                                                   Entry_Lf_In, prog) ],
          [ s2[2] EXCEPT !.lf_below =
                SplitLfBelow(@, ntk.r_nodes, p.ret_node, u.rets_out,
                             [ i \in 1..Len(u.rets_out) |-> cc_frame.lf_below[u.rets_out[i]] ],
                             prog) ] >>

(* the calls of Is_Feasible_Node that To_Run_Network makes for the two copies  *)
(* in both programs: a parent, not the root, still joined to a reticulation of *)
(* the other side, the leaf below the reticulation, and the indicator 1 for    *)
(* the first copy and -1 for the second                                        *)
Entry_Feasible_Calls ==
    { c \in [ parent : 0..(ntk.no_nodes - 1), ret : Range(ntk.r_nodes), copy : {1, 2} ] :
        /\ c.ret \in Range(IF c.copy = 1 THEN Entry_Unstable.rets_out
                           ELSE Entry_Unstable.rets_in)
        /\ c.parent \in Range(ntk.parent_array[c.ret])
        /\ ntk.node_type[c.parent] # ROOT
        /\ <<c.parent, c.ret>> \in Entry_Copies[c.copy].nw.net_edges }

(* the value Is_Feasible_Node of the given program returns for such a call *)
Verdict(c, driver) ==
    LET g == Entry_Copies[c.copy]
    IN Is_Feasible_Node(c.parent, 1, g.lf_below[c.ret], IF c.copy = 1 THEN 1 ELSE -1,
                        cc_frame.input_leaves, g.lf_below, g.nw.net_edges,
                        [ ntk EXCEPT !.prog = driver ])

(* a child of the parent, joined to it, that is a leaf of the wrong class and *)
(* has only leaves and tree vertices before it in the list of children        *)
Vetoing_Leaf(c) ==
    LET g == Entry_Copies[c.copy]
        ch == ntk.child_array[c.parent]
    IN \E i \in 1..Len(ch) :
          /\ ntk.node_type[ch[i]] = LEAVE
          /\ ch[i] # g.lf_below[c.ret]
          /\ <<c.parent, ch[i]>> \in g.nw.net_edges
          /\ Is_In(ch[i], cc_frame.input_leaves) = (IF c.copy = 1 THEN 1 ELSE -1)
          /\ \A k \in 1..(i - 1) : ntk.node_type[ch[k]] # RET

(* C30: in both ClusterContainment.c and SoftRFDist_parallel.c a wrong-class  *)
(* leaf among the children makes Is_Feasible_Node answer 0 also when a tree   *)
(* child before it was found feasible, and the two functions give the same    *)
(* answer to every call.                                                      *)
C30_AllSiblings ==
    (Entry_Splits /\ ProperInput /\ Overflows(Entry_Unstable, Len(cc_frame.input_leaves), ntk.n_r) = 0) =>
        \A c \in Entry_Feasible_Calls :
            /\ Verdict(c, "ccp") = Verdict(c, "parallel")
            /\ Vetoing_Leaf(c) => (Verdict(c, "ccp") = 0 /\ Verdict(c, "parallel") = 0)

(* the part of C30 about ClusterContainment.c alone *)
C30_CCP_Part ==
    (Entry_Splits /\ ProperInput /\ Overflows(Entry_Unstable, Len(cc_frame.input_leaves), ntk.n_r) = 0) =>
        \A c \in Entry_Feasible_Calls : Vetoing_Leaf(c) => Verdict(c, "ccp") = 0

=============================================================================
